---- MODULE Spec2Model ----
(***************************************************************************)
(* A model of the projection, sampling, layout and rendering-composition   *)
(* engine of the star-chart renderer (src/src).  Each subsystem has its    *)
(* own variables and its own specification; a specification holds the      *)
(* variables of the other subsystems at their idle values.                 *)
(*                                                                         *)
(* Numbers.  The program computes in f64.  The model carries pixel         *)
(* coordinates as integers and angles as whole degrees; the units are      *)
(* stated where each quantity is introduced.                               *)
(***************************************************************************)
EXTENDS Integers, Sequences, FiniteSets, TLC

VARIABLES
    \* geometry.rs split_segments: the arguments, the result, the position
    points, threshold, segs, split_pc,
    \* context.rs adaptive_step_deg: two fields of view, the two results
    fovs, steps, step_pc,
    \* chart.rs draw_document: the stylesheet text, the document's children,
    \* the clipped group's children, the loop index, the position, and the
    \* history of Layer::render calls
    css, doc, clipped, chart_i, chart_pc, render_log,
    \* geometry.rs project: the arguments of two calls, their results
    calls, results, project_pc,
    \* context.rs ChartContext: the datasets, the configuration, the layout,
    \* and how f64 rounds an exact quarter turn (see Culled)
    data, cfg, layout, quarter_above,
    \* layers/labels.rs LabelsLayer::render: the occupied boxes, the sorted
    \* candidates, the index of the next candidate, the emitted text elements,
    \* the offset chosen for each processed candidate (0: skipped), the position
    placed, cands, cand_i, label_out, chosen, labels_pc,
    \* the polylines split_segments(sample_ra_meridian(..)) and
    \* split_segments(sample_dec_parallel(..)) give for the lines of the sky
    lines,
    \* layers/frame.rs FrameLayer::render: the loop variable, the marks
    \* collected, the emitted primitives, the position
    frame_i, ra_marks, dec_marks, frame_out, frame_pc,
    \* layers/grid.rs GridLayer::render: h, dec, the emitted paths, the number
    \* of loop iterations run, the position
    grid_h, grid_dec, grid_out, grid_iters, grid_pc,
    \* layers/labels.rs boxes_overlap: the two boxes of a call, the results for
    \* both argument orders, the position
    overlap_boxes, overlap_out, overlap_pc,
    \* geometry.rs sample_ra_meridian and sample_dec_parallel: the arguments of a
    \* call, step as i32, the loop variable d or r, the values of the loop
    \* variable the body has run for, the vector out, the position
    samp_call, samp_step, samp_i, samp_visited, samp_out, samp_pc,
    \* data/objects.rs parse_objects_from_reader and layers/objects.rs
    \* ObjectsLayer::render: the rows of the reader, the index of the next object
    \* of the render loop, the glyphs added to the group, the position
    obj_rows, obj_i, obj_out, obj_pc,
    \* layout.rs ChartLayout::from: the width, height and margins of the
    \* configuration, the plot rectangle and center computed, the position
    lay_cfg, lay_out, lay_pc,
    \* layers/frame.rs dedup_marks called twice on the same marks: the marks, the
    \* iteration order the hash set `seen` of each call would have (its
    \* RandomState), the number of the call, the results, the position
    dd_marks, dd_seeds, dd_run, dd_out, dd_pc,
    \* layers/frame.rs edge_hits: the polyline and the sides of a call, the marks
    \* returned, the position
    eh_poly, eh_want, eh_out, eh_pc,
    \* layers/frame.rs and layers/grid.rs on one configuration: step_ra_deg,
    \* step_dec_deg, the RA ticks and the Dec ticks the Frame layer takes for
    \* major, the hours and the declinations the Grid layer draws a line at, the
    \* loop variable dec of the Grid layer, the position
    tk_ra, tk_dec, tk_major_ra, tk_major_dec, tk_meridians, tk_parallels, tk_i, tk_pc,
    \* layers/stars.rs StarsLayer::render: the index of the next star of the
    \* loop, the circles added to the group, the position
    star_i, star_out, star_pc,
    \* data/constellations.rs: the records read, the position in them, the map
    \* by_abbr, the number of the invocation, the vectors returned and the
    \* position of parse_constellations_from_reader
    con_rows, con_i, by_abbr, con_run, con_out, con_pc

splitVars == <<points, threshold, segs, split_pc>>
stepVars == <<fovs, steps, step_pc>>

chartVars == <<css, doc, clipped, chart_i, chart_pc, render_log>>

projectVars == <<calls, results, project_pc>>

contextVars == <<data, cfg, layout, quarter_above>>
labelsVars == <<placed, cands, cand_i, label_out, chosen, labels_pc>>

linesVars == <<lines>>
frameVars == <<frame_i, ra_marks, dec_marks, frame_out, frame_pc>>
gridVars == <<grid_h, grid_dec, grid_out, grid_iters, grid_pc>>

overlapVars == <<overlap_boxes, overlap_out, overlap_pc>>

samplerVars == <<samp_call, samp_step, samp_i, samp_visited, samp_out, samp_pc>>

objectsVars == <<obj_rows, obj_i, obj_out, obj_pc>>

layoutFromVars == <<lay_cfg, lay_out, lay_pc>>

dedupVars == <<dd_marks, dd_seeds, dd_run, dd_out, dd_pc>>

edgeVars == <<eh_poly, eh_want, eh_out, eh_pc>>

ticksVars == <<tk_ra, tk_dec, tk_major_ra, tk_major_dec, tk_meridians, tk_parallels, tk_i, tk_pc>>

starsVars == <<star_i, star_out, star_pc>>

constellationsVars == <<con_rows, con_i, by_abbr, con_run, con_out, con_pc>>

vars == <<splitVars, stepVars, chartVars, projectVars, contextVars, labelsVars,
          linesVars, frameVars, gridVars,
          overlapVars,
          samplerVars,
          objectsVars,
          layoutFromVars,
          dedupVars,
          edgeVars,
          ticksVars,
          starsVars,
          constellationsVars>>

\* What each subsystem's actions leave alone.
notSplit ==
    <<stepVars, chartVars, projectVars, contextVars, labelsVars,
      linesVars, frameVars, gridVars,
      overlapVars,
      samplerVars,
      objectsVars,
      layoutFromVars,
      dedupVars,
      edgeVars,
      ticksVars,
      starsVars,
      constellationsVars>>
notStep ==
    <<splitVars, chartVars, projectVars, contextVars, labelsVars,
      linesVars, frameVars, gridVars,
      overlapVars,
      samplerVars,
      objectsVars,
      layoutFromVars,
      dedupVars,
      edgeVars,
      ticksVars,
      starsVars,
      constellationsVars>>
notChart ==
    <<splitVars, stepVars, projectVars, contextVars, labelsVars,
      linesVars, frameVars, gridVars,
      overlapVars,
      samplerVars,
      objectsVars,
      layoutFromVars,
      dedupVars,
      edgeVars,
      ticksVars,
      starsVars,
      constellationsVars>>
notProject ==
    <<splitVars, stepVars, chartVars, contextVars, labelsVars,
      linesVars, frameVars, gridVars,
      overlapVars,
      samplerVars,
      objectsVars,
      layoutFromVars,
      dedupVars,
      edgeVars,
      ticksVars,
      starsVars,
      constellationsVars>>
notLabels ==
    <<splitVars, stepVars, chartVars, projectVars,
      linesVars, frameVars, gridVars,
      overlapVars,
      samplerVars,
      objectsVars,
      layoutFromVars,
      dedupVars,
      edgeVars,
      ticksVars,
      starsVars,
      constellationsVars>>
notFrame ==
    <<splitVars, stepVars, chartVars, projectVars, labelsVars, gridVars,
      overlapVars,
      samplerVars,
      objectsVars,
      layoutFromVars,
      dedupVars,
      edgeVars,
      ticksVars,
      starsVars,
      constellationsVars>>
notGrid ==
    <<splitVars, stepVars, chartVars, projectVars, labelsVars, frameVars,
      overlapVars,
      samplerVars,
      objectsVars,
      layoutFromVars,
      dedupVars,
      edgeVars,
      ticksVars,
      starsVars,
      constellationsVars>>
notOverlap ==
    <<splitVars, stepVars, chartVars, projectVars, contextVars,
      labelsVars, linesVars, frameVars, gridVars,
      samplerVars,
      objectsVars,
      layoutFromVars,
      dedupVars,
      edgeVars,
      ticksVars,
      starsVars,
      constellationsVars>>
notSampler ==
    <<splitVars, stepVars, chartVars, projectVars, labelsVars,
      linesVars, frameVars, gridVars, overlapVars,
      objectsVars,
      layoutFromVars,
      dedupVars,
      edgeVars,
      ticksVars,
      starsVars,
      constellationsVars>>
notObjects ==
    <<splitVars, stepVars, chartVars, projectVars, labelsVars,
      linesVars, frameVars, gridVars, overlapVars, samplerVars,
      layoutFromVars,
      dedupVars,
      edgeVars,
      ticksVars,
      starsVars,
      constellationsVars>>
notLayoutFrom ==
    <<splitVars, stepVars, chartVars, projectVars, contextVars,
      labelsVars, linesVars, frameVars, gridVars, overlapVars,
      samplerVars, objectsVars,
      dedupVars,
      edgeVars,
      ticksVars,
      starsVars,
      constellationsVars>>
notDedup ==
    <<splitVars, stepVars, chartVars, projectVars, contextVars,
      labelsVars, linesVars, frameVars, gridVars, overlapVars,
      samplerVars, objectsVars, layoutFromVars,
      edgeVars,
      ticksVars,
      starsVars,
      constellationsVars>>
notEdge ==
    <<splitVars, stepVars, chartVars, projectVars, contextVars,
      labelsVars, linesVars, frameVars, gridVars, overlapVars,
      samplerVars, objectsVars, layoutFromVars, dedupVars,
      ticksVars,
      starsVars,
      constellationsVars>>
notTicks ==
    <<splitVars, stepVars, chartVars, projectVars, contextVars,
      labelsVars, linesVars, frameVars, gridVars, overlapVars,
      samplerVars, objectsVars, layoutFromVars, dedupVars, edgeVars,
      starsVars,
      constellationsVars>>
notStars ==
    <<splitVars, stepVars, chartVars, projectVars, labelsVars,
      linesVars, frameVars, gridVars, overlapVars, samplerVars,
      objectsVars, layoutFromVars, dedupVars, edgeVars, ticksVars,
      constellationsVars>>
notConstellations ==
    <<splitVars, stepVars, chartVars, projectVars, contextVars,
      labelsVars, linesVars, frameVars, gridVars, overlapVars,
      samplerVars, objectsVars, layoutFromVars, dedupVars, edgeVars,
      ticksVars, starsVars>>

----------------------------------------------------------------------------
(* Shared arithmetic *)

Abs(n) == IF n < 0 THEN -n ELSE n

Min(a, b) == IF a <= b THEN a ELSE b

Max(a, b) == IF a >= b THEN a ELSE b

\* f64::round of the quotient n/d, d > 0: to the nearest integer, halves away
\* from zero.
RoundDiv(n, d) ==
    IF n >= 0 THEN (2 * n + d) \div (2 * d)
    ELSE -((2 * (-n) + d) \div (2 * d))

Point(px, py) == [x |-> px, y |-> py]

RECURSIVE Flatten(_)
Flatten(ss) == IF ss = <<>> THEN <<>> ELSE Head(ss) \o Flatten(Tail(ss))

----------------------------------------------------------------------------
(* geometry.rs: split_segments *)

\* The largest number of points of an input polyline.
MaxPoints == 4

\* Pixel coordinates the input points are drawn from (whole pixels).
SplitXs == {0, 1, 3}
SplitYs == {0, 2}
SplitThresholds == {1, 2}

SplitPoints == {Point(px, py) : px \in SplitXs, py \in SplitYs}

SeqsUpTo(S, n) == UNION {[1..k -> S] : k \in 0..n}

\* geometry.rs:86, the test that cuts between two consecutive points.
JumpXOnly(a, b, th) == Abs(b.x - a.x) > th
JumpInclusive(a, b, th) == Abs(b.x - a.x) >= th \/ Abs(b.y - a.y) >= th
Jump(a, b, th) == Abs(b.x - a.x) > th \/ Abs(b.y - a.y) > th

\* geometry.rs:84-92, the loop over points.windows(2) from window i on, with
\* the finished segments sg and the open segment seg.
RECURSIVE SplitLoop(_, _, _, _, _)
SplitLoop(pts, th, i, sg, seg) ==
    IF i > Len(pts) THEN <<sg, seg>>
    ELSE IF Jump(pts[i - 1], pts[i], th)
         THEN SplitLoop(pts, th, i + 1, Append(sg, seg), <<pts[i]>>)
         ELSE SplitLoop(pts, th, i + 1, sg, Append(seg, pts[i]))

\* geometry.rs:78-97
split_segments(pts, th) ==
    IF pts = <<>> THEN <<>>
    ELSE LET r == SplitLoop(pts, th, 2, <<>>, <<pts[1]>>)
         IN  IF r[2] # <<>> THEN Append(r[1], r[2]) ELSE r[1]

InitSplitIdle ==
    /\ points = <<>>
    /\ threshold = 0
    /\ segs = <<>>
    /\ split_pc = "idle"

InitSplitCall ==
    /\ points \in SeqsUpTo(SplitPoints, MaxPoints)
    /\ threshold \in SplitThresholds
    /\ segs = <<>>
    /\ split_pc = "call"

SplitSegments ==
    /\ split_pc = "call"
    /\ segs' = split_segments(points, threshold)
    /\ split_pc' = "done"
    /\ UNCHANGED <<points, threshold>>
    /\ UNCHANGED notSplit

----------------------------------------------------------------------------
(* context.rs: ChartContext::adaptive_step_deg *)

\* Fields of view, in whole degrees, are drawn from the multiples of 30 up to
\* 30 * MaxFovK and their two neighbours, and one negative value.
MaxFovK == 17

FovValues ==
    {-10} \cup {30 * k + j : k \in 0..MaxFovK, j \in {-1, 0, 1}}

\* context.rs:25-31, the divisor of the field of view's bucket.
AdaptiveTarget(fov) ==
    IF fov <= 30 THEN 240 ELSE IF fov <= 60 THEN 180 ELSE 120

\* context.rs:32, (fov_deg / target).clamp(0.5, 4.0) as the fraction <<n, d>>.
AdaptiveClamped(fov) ==
    LET target == AdaptiveTarget(fov)
    IN  IF 2 * fov < target THEN <<1, 2>>
        ELSE IF fov > 4 * target THEN <<4, 1>>
        ELSE <<fov, target>>

\* context.rs:23-34 without the last line's floor of 1 and with the clamp
\* starting at 0.0.
adaptive_step_deg_NoFloor(fov) ==
    LET target == AdaptiveTarget(fov)
        q == IF fov < 0 THEN <<0, 1>>
             ELSE IF fov > 4 * target THEN <<4, 1>>
             ELSE <<fov, target>>
    IN  RoundDiv(q[1], q[2])

\* context.rs:23-34
adaptive_step_deg(fov) ==
    LET q == AdaptiveClamped(fov)
        step == RoundDiv(q[1], q[2])
    IN  Max(step, 1)

InitStepIdle ==
    /\ fovs = <<0, 0>>
    /\ steps = <<0, 0>>
    /\ step_pc = "idle"

InitStepCall ==
    /\ fovs \in {f \in FovValues \X FovValues : f[1] <= f[2]}
    /\ steps = <<0, 0>>
    /\ step_pc = "call"

AdaptiveStep ==
    /\ step_pc = "call"
    /\ steps' = <<adaptive_step_deg(fovs[1]), adaptive_step_deg(fovs[2])>>
    /\ step_pc' = "done"
    /\ UNCHANGED fovs
    /\ UNCHANGED notStep

----------------------------------------------------------------------------
(* chart.rs: Chart::draw_document *)

\* The largest number of primitives a layer's group holds in the model.
MaxPrims == 1

\* chart.rs:42-50; the second list puts the stars under the objects.
ClippedLayersStarsFirst ==
    <<"EclipticLayer", "GridLayer", "ConstellationsLayer", "StarsLayer",
      "ObjectsLayer", "LabelsLayer", "ZenithLayer">>
ClippedLayers ==
    <<"EclipticLayer", "GridLayer", "ConstellationsLayer", "ObjectsLayer",
      "StarsLayer", "LabelsLayer", "ZenithLayer">>

\* chart.rs:51
UnclippedLayers == <<"FrameLayer">>

\* The class of the group each layer's render returns
\* (layers/*.rs, group_with_class).
LayerClass(layer) ==
    CASE layer = "EclipticLayer" -> "ecliptic"
      [] layer = "GridLayer" -> "lines"
      [] layer = "ConstellationsLayer" -> "constellations"
      [] layer = "ObjectsLayer" -> "objects"
      [] layer = "StarsLayer" -> "stars"
      [] layer = "LabelsLayer" -> "labels"
      [] layer = "ZenithLayer" -> "zenith"
      [] layer = "FrameLayer" -> "frame"

\* layers/mod.rs:5-8, Layer::render: a group of the layer's class holding n
\* primitives; n depends on the datasets and the configuration.
RenderedGroup(layer, n) == [node |-> "g", class |-> LayerClass(layer), prims |-> n]

\* chart.rs:74, the group that carries the clip path.
ClipGroup(children) == [node |-> "g", clip_path |-> "url(#clip-chart)", children |-> children]

InitChartIdle ==
    /\ css = ""
    /\ doc = <<>>
    /\ clipped = <<>>
    /\ chart_i = 0
    /\ chart_pc = "idle"
    /\ render_log = <<>>

\* chart.rs:53-59: the empty document and the stylesheet text read.
InitChartCall ==
    /\ css \in {"", "text"}
    /\ doc = <<>>
    /\ clipped = <<>>
    /\ chart_i = 1
    /\ chart_pc = "style"
    /\ render_log = <<>>

\* chart.rs:60-62
AddStyle ==
    /\ chart_pc = "style"
    /\ doc' = IF css # "" THEN Append(doc, [node |-> "style"]) ELSE doc
    /\ chart_pc' = "defs"
    /\ UNCHANGED <<css, clipped, chart_i, render_log>>
    /\ UNCHANGED notChart

\* chart.rs:64-74
AddDefs ==
    /\ chart_pc = "defs"
    /\ doc' = Append(doc, [node |-> "defs"])
    /\ clipped' = <<>>
    /\ chart_i' = 1
    /\ chart_pc' = "clipped"
    /\ UNCHANGED <<css, render_log>>
    /\ UNCHANGED notChart

\* chart.rs:75-77, one iteration
RenderClipped ==
    /\ chart_pc = "clipped"
    /\ chart_i <= Len(ClippedLayers)
    /\ \E n \in 0..MaxPrims :
          clipped' = Append(clipped, RenderedGroup(ClippedLayers[chart_i], n))
    /\ render_log' = Append(render_log,
          [layer |-> ClippedLayers[chart_i], into |-> "clipped", doc_len |-> Len(doc)])
    /\ chart_i' = chart_i + 1
    /\ UNCHANGED <<css, doc, chart_pc>>
    /\ UNCHANGED notChart

\* chart.rs:78
AddClipped ==
    /\ chart_pc = "clipped"
    /\ chart_i > Len(ClippedLayers)
    /\ doc' = Append(doc, ClipGroup(clipped))
    /\ chart_i' = 1
    /\ chart_pc' = "unclipped"
    /\ UNCHANGED <<css, clipped, render_log>>
    /\ UNCHANGED notChart

\* chart.rs:81-83, one iteration
RenderUnclipped ==
    /\ chart_pc = "unclipped"
    /\ chart_i <= Len(UnclippedLayers)
    /\ \E n \in 0..MaxPrims :
          doc' = Append(doc, RenderedGroup(UnclippedLayers[chart_i], n))
    /\ render_log' = Append(render_log,
          [layer |-> UnclippedLayers[chart_i], into |-> "doc", doc_len |-> Len(doc)])
    /\ chart_i' = chart_i + 1
    /\ UNCHANGED <<css, clipped, chart_pc>>
    /\ UNCHANGED notChart

\* chart.rs:85
ReturnDocument ==
    /\ chart_pc = "unclipped"
    /\ chart_i > Len(UnclippedLayers)
    /\ chart_pc' = "done"
    /\ UNCHANGED <<css, doc, clipped, chart_i, render_log>>
    /\ UNCHANGED notChart

NextChart ==
    \/ AddStyle
    \/ AddDefs
    \/ RenderClipped
    \/ AddClipped
    \/ RenderUnclipped
    \/ ReturnDocument

----------------------------------------------------------------------------
(* geometry.rs: project *)

(* Angles are whole degrees.  Sines, cosines and tangent-plane coordinates  *)
(* are fixed-point numbers in units of 1/TrigScale; sines are read from a   *)
(* table at half-degree resolution, the inverse functions return the       *)
(* nearest whole degree.                                                    *)
TrigScale == 10000

\* round(TrigScale * sin(k/2 degrees)) for k = 0..180, at index k + 1.
SinHalfTable ==
    <<
      0, 87, 175, 262, 349, 436, 523, 610, 698, 785, 872, 958,
      1045, 1132, 1219, 1305, 1392, 1478, 1564, 1650, 1736, 1822, 1908, 1994,
      2079, 2164, 2250, 2334, 2419, 2504, 2588, 2672, 2756, 2840, 2924, 3007,
      3090, 3173, 3256, 3338, 3420, 3502, 3584, 3665, 3746, 3827, 3907, 3987,
      4067, 4147, 4226, 4305, 4384, 4462, 4540, 4617, 4695, 4772, 4848, 4924,
      5000, 5075, 5150, 5225, 5299, 5373, 5446, 5519, 5592, 5664, 5736, 5807,
      5878, 5948, 6018, 6088, 6157, 6225, 6293, 6361, 6428, 6494, 6561, 6626,
      6691, 6756, 6820, 6884, 6947, 7009, 7071, 7133, 7193, 7254, 7314, 7373,
      7431, 7490, 7547, 7604, 7660, 7716, 7771, 7826, 7880, 7934, 7986, 8039,
      8090, 8141, 8192, 8241, 8290, 8339, 8387, 8434, 8480, 8526, 8572, 8616,
      8660, 8704, 8746, 8788, 8829, 8870, 8910, 8949, 8988, 9026, 9063, 9100,
      9135, 9171, 9205, 9239, 9272, 9304, 9336, 9367, 9397, 9426, 9455, 9483,
      9511, 9537, 9563, 9588, 9613, 9636, 9659, 9681, 9703, 9724, 9744, 9763,
      9781, 9799, 9816, 9833, 9848, 9863, 9877, 9890, 9903, 9914, 9925, 9936,
      9945, 9954, 9962, 9969, 9976, 9981, 9986, 9990, 9994, 9997, 9998, 10000,
      10000
    >>

\* f64::sin of an angle of h half-degrees.
SinHalf(h) ==
    LET m == h % 720
    IN  IF m <= 180 THEN SinHalfTable[m + 1]
        ELSE IF m <= 360 THEN SinHalfTable[360 - m + 1]
        ELSE IF m <= 540 THEN -SinHalfTable[m - 360 + 1]
        ELSE -SinHalfTable[720 - m + 1]

\* f64::sin and f64::cos of an angle of d degrees (to_radians included).
Sin(d) == SinHalf(2 * d)
Cos(d) == SinHalf(2 * d + 180)

\* The product of two fixed-point numbers, rounded to the nearest unit.
MulFix(a, b) ==
    LET sgn == IF (a < 0) # (b < 0) THEN -1 ELSE 1
        ua == Abs(a)
        ub == Abs(b)
    IN  sgn * ((ua \div TrigScale) * ub + RoundDiv((ua % TrigScale) * ub, TrigScale))

\* geometry.rs:6-14
clamp(v, lo, hi) == IF v < lo THEN lo ELSE IF v > hi THEN hi ELSE v

\* f64::acos of a fixed-point cosine in [-1, 1], in degrees.
Acos(c) ==
    LET lo == Cardinality({a \in 1..180 : Cos(a) >= c})
    IN  IF lo < 180 /\ c - Cos(lo + 1) < Cos(lo) - c THEN lo + 1 ELSE lo

\* f64::atan2(y, x), in degrees in -180..180.
Atan2(y, x) ==
    LET uy == Abs(y)
        ux == Abs(x)
        cross(a) == uy * Cos(a) - ux * Sin(a)
        lo == Cardinality({a \in 1..90 : cross(a) >= 0})
        q == IF lo < 90 /\ -cross(lo + 1) < cross(lo) THEN lo + 1 ELSE lo
    IN  IF x = 0 /\ y = 0 THEN 0
        ELSE IF x >= 0 THEN (IF y >= 0 THEN q ELSE -q)
        ELSE (IF y >= 0 THEN 180 - q ELSE q - 180)

\* f64::tan(PI / 2) is 1.633123935319537e16, not an infinity: PI / 2 is not
\* exactly a quarter turn.  The model carries the largest number of the same
\* digits that its 32-bit arithmetic holds; it exceeds every other radial
\* value by three orders of magnitude.
TanHalfPi == 1633123935

\* f64::tan of an angle of h half-degrees, 0 <= h <= 180.
TanHalf(h) ==
    IF h = 180 THEN TanHalfPi
    ELSE RoundDiv(SinHalf(h) * TrigScale, SinHalf(h + 180))

Projections == {"Gnomonic", "Stereographic", "Spherical", "AltAz"}

EQPoint(ra, dec) == [ra_deg |-> ra, dec_deg |-> dec]

None == [some |-> FALSE, x |-> 0, y |-> 0]
Some(p) == [some |-> TRUE, x |-> p.x, y |-> p.y]

\* geometry.rs:44-52, the angular separation of coords and center in degrees.
Zenith(coords, center) ==
    LET dec == coords.dec_deg
        cde == center.dec_deg
        d_ra == coords.ra_deg - center.ra_deg
        cos_z == clamp(MulFix(Sin(cde), Sin(dec))
                         + MulFix(MulFix(Cos(cde), Cos(dec)), Cos(d_ra)),
                       -TrigScale, TrigScale)
    IN  Acos(cos_z)

\* geometry.rs:54-57 with the position angle added.
AzimuthPlusPa(coords, center, position_angle_deg) ==
    LET dec == coords.dec_deg
        cde == center.dec_deg
        d_ra == coords.ra_deg - center.ra_deg
        y == MulFix(Sin(d_ra), Cos(dec))
        x == MulFix(Cos(cde), Sin(dec)) - MulFix(MulFix(Sin(cde), Cos(dec)), Cos(d_ra))
    IN  Atan2(y, x) + position_angle_deg

\* geometry.rs:54-57, the bearing from the center minus the position angle.
Azimuth(coords, center, position_angle_deg) ==
    LET dec == coords.dec_deg
        cde == center.dec_deg
        d_ra == coords.ra_deg - center.ra_deg
        y == MulFix(Sin(d_ra), Cos(dec))
        x == MulFix(Cos(cde), Sin(dec)) - MulFix(MulFix(Sin(cde), Cos(dec)), Cos(d_ra))
    IN  Atan2(y, x) - position_angle_deg

\* geometry.rs:60, the test that drops a point.  At an exact quarter turn the
\* f64 value of acos(cos_z) is PI / 2 or the next number above it, as the
\* rounding of cos_z falls (center (0,0): the point at RA 90 is kept, the point
\* at RA 270 is dropped): ulp_above tells which.  The variants drop under every
\* projection, and never drop.
CulledAlways(zenith, projection, ulp_above) ==
    zenith > 90 \/ (zenith = 90 /\ ulp_above)
CulledNever(zenith, projection, ulp_above) == FALSE
Culled(zenith, projection, ulp_above) ==
    /\ zenith > 90 \/ (zenith = 90 /\ ulp_above)
    /\ projection # "Stereographic"

\* geometry.rs:65-70
Radial(zenith, projection) ==
    CASE projection = "Gnomonic" -> TanHalf(2 * zenith)
      [] projection = "Stereographic" -> TanHalf(zenith)
      [] projection = "Spherical" -> Sin(zenith)
      [] projection = "AltAz" -> RoundDiv(zenith * TrigScale, 90)

\* geometry.rs:72-75
TangentPoint(r, az) == Point(MulFix(-r, Sin(az)), MulFix(r, Cos(az)))

\* geometry.rs:31-76
project(coords, center, projection, position_angle_deg, ulp_above) ==
    LET zenith == Zenith(coords, center)
        az == Azimuth(coords, center, position_angle_deg)
    IN  IF Culled(zenith, projection, ulp_above) THEN None
        ELSE Some(TangentPoint(Radial(zenith, projection), az))

\* The sky coordinates, centers and position angles the calls are drawn from.
ProjectRAs == {0, 1, 3, 60, 90, 120, 180, 270, 359}
ProjectDecs == {-90, -45, 0, 30, 90}
ProjectCenters == {EQPoint(0, 0), EQPoint(1, 0), EQPoint(359, 0), EQPoint(0, 90), EQPoint(90, 30)}
ProjectPAs == {0, 30}

ProjectCalls ==
    [coords : {EQPoint(ra, dec) : ra \in ProjectRAs, dec \in ProjectDecs},
     center : ProjectCenters,
     projection : Projections,
     position_angle_deg : ProjectPAs,
     ulp_above : BOOLEAN]

\* The second call of a pair: the first with the position angle 90 degrees on.
Rotated90(call) ==
    [call EXCEPT !.position_angle_deg = call.position_angle_deg + 90]

Apply(call) ==
    project(call.coords, call.center, call.projection, call.position_angle_deg,
            call.ulp_above)

InitProjectIdle ==
    /\ calls = <<>>
    /\ results = <<>>
    /\ project_pc = "idle"

InitProjectCall ==
    /\ \E c \in ProjectCalls : calls = <<c, Rotated90(c)>>
    /\ results = <<>>
    /\ project_pc = "call"

\* The offsets added to both right ascensions and the whole turns added to
\* one of them.
ShiftOffsets == {2, 270}
ShiftTurns == {<<0, 0>>, <<1, 0>>, <<0, -1>>}

\* The second call of a pair: the first with both right ascensions offset by
\* k degrees and by m[1] and m[2] whole turns.  d_ra (geometry.rs:44) is the
\* f64 difference of the two radians values, so the rounding of cos_z at an
\* exact quarter turn falls for the second call on its own (center (0,0) keeps
\* the point at RA 90, center (270,0) drops the point at RA 0 and keeps the
\* point at RA 360).
Shifted(call, k, m, u) ==
    [call EXCEPT !.coords = EQPoint(call.coords.ra_deg + k + 360 * m[1], call.coords.dec_deg),
                 !.center = EQPoint(call.center.ra_deg + k + 360 * m[2], call.center.dec_deg),
                 !.ulp_above = u]

InitProjectShiftCall ==
    /\ \E c \in ProjectCalls, k \in ShiftOffsets, m \in ShiftTurns, u \in BOOLEAN :
           calls = <<c, Shifted(c, k, m, u)>>
    /\ results = <<>>
    /\ project_pc = "call"

Project ==
    /\ project_pc = "call"
    /\ results' = <<Apply(calls[1]), Apply(calls[2])>>
    /\ project_pc' = "done"
    /\ UNCHANGED calls
    /\ UNCHANGED notProject

----------------------------------------------------------------------------
(* config.rs, layout.rs, context.rs: the chart context *)

(* Pixel lengths are integers in hundredths of a pixel; magnitudes are      *)
(* integers in tenths of a magnitude, object_scale in tenths.               *)

\* config.rs:10-18
Margin_uniform(px) == [top |-> px, bottom |-> px, left |-> px, right |-> px]

\* config.rs:36-56
ChartConfig_default ==
    [center |-> EQPoint(0, 0),
     position_angle_deg |-> 0,
     projection |-> "Gnomonic",
     fov_deg |-> 60,
     width |-> 800,
     height |-> 800,
     margin |-> Margin_uniform(40),
     step_ra_deg |-> 15,
     step_dec_deg |-> 10,
     limit_star_mag |-> 100,
     limit_object_mag |-> 110,
     object_scale |-> 10]

\* layout.rs:15-43.  scale is in hundredths of a pixel per tangent-plane unit.
ChartLayout_from(c) ==
    LET plot_x == 100 * c.margin.left
        plot_y == 100 * c.margin.top
        plot_w == 100 * (c.width - c.margin.left - c.margin.right)
        plot_h == 100 * (c.height - c.margin.top - c.margin.bottom)
        rho_max == TanHalf(c.fov_deg)
        radius_px == Min(plot_w, plot_h) \div 2
    IN  [plot_x |-> plot_x,
         plot_y |-> plot_y,
         plot_w |-> plot_w,
         plot_h |-> plot_h,
         center_px |-> Point(plot_x + plot_w \div 2, plot_y + plot_h \div 2),
         scale |-> RoundDiv(radius_px * TrigScale, rho_max),
         split_threshold |-> (8 * Min(plot_w, plot_h)) \div 10]

\* Tangent-plane coordinates beyond 1000 units are carried as 1000 units: the
\* pixel they map to lies far outside every plot rectangle either way.
TangentFar == 10000000

\* geometry.rs:17-22
to_pixels(tp, center_px, scale) ==
    LET sx == clamp(tp.x, -TangentFar, TangentFar)
        sy == clamp(tp.y, -TangentFar, TangentFar)
    IN  Point(center_px.x + MulFix(sx, scale), center_px.y - MulFix(sy, scale))

\* project followed by to_pixels, as every layer calls them
\* (layers/labels.rs:88-94).
ProjectToPixels(coords, c, l, above) ==
    LET tp == project(coords, c.center, c.projection, c.position_angle_deg, above)
    IN  IF tp.some THEN Some(to_pixels(tp, l.center_px, l.scale)) ELSE None

\* types.rs:33-43
CelestialObject(kind, catalog, identifier, coords, magnitude, name) ==
    [kind |-> kind, catalog |-> catalog, identifier |-> identifier,
     coords |-> coords, magnitude |-> magnitude, name |-> name]

InitContextIdle ==
    /\ data = [stars |-> <<>>, objects |-> <<>>]
    /\ cfg = ChartConfig_default
    /\ layout = ChartLayout_from(ChartConfig_default)
    /\ quarter_above = FALSE

----------------------------------------------------------------------------
(* layers/labels.rs: LabelsLayer *)

\* labels.rs:17-19
limit_star_label_mag == 10
limit_object_label_mag == 80
symbol_pad == 100

\* labels.rs:20-27
offsets ==
    <<<<0, -1000>>, <<0, 1000>>, <<0, -1600>>, <<0, 1600>>, <<0, -2000>>, <<0, 2000>>>>

Box(bx, by, bw, bh) == [x |-> bx, y |-> by, w |-> bw, h |-> bh]

\* labels.rs:30-34; one variant reports an overlap only when a corner of b
\* lies strictly inside a, the other counts boxes that touch as overlapping.
boxes_overlap_corner(a, b) ==
    \E cx \in {b.x, b.x + b.w}, cy \in {b.y, b.y + b.h} :
        a.x < cx /\ cx < a.x + a.w /\ a.y < cy /\ cy < a.y + a.h
boxes_overlap_closed(a, b) ==
    ~(a.x + a.w < b.x \/ a.x > b.x + b.w \/ a.y + a.h < b.y \/ a.y > b.y + b.h)
boxes_overlap(a, b) ==
    ~(a.x + a.w <= b.x \/ a.x >= b.x + b.w \/ a.y + a.h <= b.y \/ a.y >= b.y + b.h)

\* labels.rs:35-42
label_box_centered(x, y_baseline, text) ==
    LET ch == Max(Len(text), 2)
        w == Max(ch * 700, 1600)
        h == 1200
        left == x - w \div 2
        top == y_baseline - h
    IN  Box(left, top, w, h)

\* str::contains("star") of the lower-cased kind, for the kinds of the model.
KindContainsStar(kind) == kind \in {"star", "double-star"}

\* labels.rs:43-49
should_label(kind, mag) ==
    IF KindContainsStar(kind) THEN mag <= limit_star_label_mag
    ELSE mag <= limit_object_label_mag

\* labels.rs:50-54
star_symbol_box(p, mag) ==
    LET r == Max(400 - 6 * mag, 50) + symbol_pad
    IN  Box(p.x - r, p.y - r, 2 * r, 2 * r)

\* labels.rs:55-81
object_symbol_box(kind, mag, p) ==
    LET base == 1000
        size == Max(base - 10 * mag, 400)
        pad == symbol_pad
        half == CASE kind = "bright-nebula" -> size \div 2 + pad
                  [] kind = "planetary-nebula" -> size + pad
                  [] kind = "galaxy" -> Max(size, size \div 2) + pad
                  [] kind \in {"open-cluster", "globular-cluster"} -> size \div 2 + pad
                  [] OTHER -> size \div 2 + pad
    IN  Box(p.x - half, p.y - half, 2 * half, 2 * half)

\* The variant seeds the symbol boxes of the label candidates only.
RECURSIVE SeedLabelledStars(_, _, _, _, _)
SeedLabelledStars(stars, i, c, l, above) ==
    IF i > Len(stars) THEN <<>>
    ELSE LET s == stars[i]
             p == ProjectToPixels(s.coords, c, l, above)
             rest == SeedLabelledStars(stars, i + 1, c, l, above)
         IN  IF s.magnitude > c.limit_star_mag \/ ~should_label(s.kind, s.magnitude) THEN rest
             ELSE IF p.some THEN <<star_symbol_box(p, s.magnitude)>> \o rest
             ELSE rest

\* labels.rs:84-97, the loop over the stars from index i on.
RECURSIVE SeedStars(_, _, _, _, _)
SeedStars(stars, i, c, l, above) ==
    IF i > Len(stars) THEN <<>>
    ELSE LET s == stars[i]
             p == ProjectToPixels(s.coords, c, l, above)
             rest == SeedStars(stars, i + 1, c, l, above)
         IN  IF s.magnitude > c.limit_star_mag THEN rest
             ELSE IF p.some THEN <<star_symbol_box(p, s.magnitude)>> \o rest
             ELSE rest

\* labels.rs:98-111, the loop over the objects from index i on.
RECURSIVE SeedObjects(_, _, _, _, _)
SeedObjects(objects, i, c, l, above) ==
    IF i > Len(objects) THEN <<>>
    ELSE LET o == objects[i]
             p == ProjectToPixels(o.coords, c, l, above)
             rest == SeedObjects(objects, i + 1, c, l, above)
         IN  IF o.magnitude > c.limit_object_mag THEN rest
             ELSE IF p.some THEN <<object_symbol_box(o.kind, o.magnitude, p)>> \o rest
             ELSE rest

\* labels.rs:82-113
seed_symbol_boxes(d, c, l, above) ==
    SeedStars(d.stars, 1, c, l, above) \o SeedObjects(d.objects, 1, c, l, above)

\* labels.rs:141-145 and 166-170
LabelText(o) ==
    IF o.name = "" THEN o.catalog \o " " \o o.identifier ELSE o.name

\* labels.rs:122-127
Cand(magnitude, is_star, text, p) ==
    [magnitude |-> magnitude, is_star |-> is_star, text |-> text, p |-> Point(p.x, p.y)]

\* labels.rs:130-153, the loop over the stars from index i on.
RECURSIVE StarCands(_, _, _, _, _)
StarCands(stars, i, c, l, above) ==
    IF i > Len(stars) THEN <<>>
    ELSE LET s == stars[i]
             p == ProjectToPixels(s.coords, c, l, above)
             rest == StarCands(stars, i + 1, c, l, above)
         IN  IF ~should_label(s.kind, s.magnitude) THEN rest
             ELSE IF p.some THEN <<Cand(s.magnitude, TRUE, LabelText(s), p)>> \o rest
             ELSE rest

\* labels.rs:154-178, the loop over the objects from index i on.
RECURSIVE ObjectCands(_, _, _, _, _)
ObjectCands(objects, i, c, l, above) ==
    IF i > Len(objects) THEN <<>>
    ELSE LET o == objects[i]
             p == ProjectToPixels(o.coords, c, l, above)
             rest == ObjectCands(objects, i + 1, c, l, above)
         IN  IF o.catalog # "M" /\ ~should_label(o.kind, o.magnitude) THEN rest
             ELSE IF p.some THEN <<Cand(o.magnitude, FALSE, LabelText(o), p)>> \o rest
             ELSE rest

\* slice::sort_by with the comparison of labels.rs:179: a stable sort by
\* ascending magnitude.  Insert puts c behind every element not greater.
\* The variant puts c in front of the elements of equal magnitude.
RECURSIVE InsertBeforeEqual(_, _)
InsertBeforeEqual(sorted, c) ==
    IF sorted = <<>> THEN <<c>>
    ELSE IF Head(sorted).magnitude < c.magnitude
         THEN <<Head(sorted)>> \o InsertBeforeEqual(Tail(sorted), c)
         ELSE <<c>> \o sorted

RECURSIVE InsertByMagnitude(_, _)
InsertByMagnitude(sorted, c) ==
    IF sorted = <<>> THEN <<c>>
    ELSE IF Head(sorted).magnitude <= c.magnitude
         THEN <<Head(sorted)>> \o InsertByMagnitude(Tail(sorted), c)
         ELSE <<c>> \o sorted

RECURSIVE SortByMagnitude(_, _)
SortByMagnitude(cs, i) ==
    IF i = 0 THEN <<>>
    ELSE InsertByMagnitude(SortByMagnitude(cs, i - 1), cs[i])

\* labels.rs:128-179
BuildCands(d, c, l, above) ==
    LET cs == StarCands(d.stars, 1, c, l, above) \o ObjectCands(d.objects, 1, c, l, above)
    IN  SortByMagnitude(cs, Len(cs))

\* labels.rs:192-195, the box of candidate c at offset k.
OffsetBox(c, k) ==
    label_box_centered(c.p.x + offsets[k][1], c.p.y + offsets[k][2], c.text)

\* The variant tests the top and the bottom of the plot rectangle only.
ExitsPlotVertically(b, l) ==
    LET top == l.plot_y
        bottom == top + l.plot_h
    IN  b.y < top \/ b.y + b.h > bottom

\* labels.rs:196-198, the test that rejects a box leaving the plot rectangle.
ExitsPlot(b, l) ==
    LET left == l.plot_x
        top == l.plot_y
        right == left + l.plot_w
        bottom == top + l.plot_h
    IN  b.x < left \/ b.x + b.w > right \/ b.y < top \/ b.y + b.h > bottom

\* labels.rs:196-204, an offset that is not skipped.
OffsetValid(c, k, occupied, l) ==
    /\ ~ExitsPlot(OffsetBox(c, k), l)
    /\ ~\E i \in 1..Len(occupied) : boxes_overlap(OffsetBox(c, k), occupied[i])

\* The variant takes the last offset the loop would not skip.
LastValidOffset(c, occupied, l) ==
    LET valid == {k \in 1..Len(offsets) : OffsetValid(c, k, occupied, l)}
    IN  IF valid = {} THEN 0 ELSE CHOOSE k \in valid : \A j \in valid : k >= j

\* labels.rs:191-209, the first offset the loop does not skip (0: none).
FirstValidOffset(c, occupied, l) ==
    LET valid == {k \in 1..Len(offsets) : OffsetValid(c, k, occupied, l)}
    IN  IF valid = {} THEN 0 ELSE CHOOSE k \in valid : \A j \in valid : k <= j

\* layers/mod.rs:16-22
text(class, x, y, anchor, content) ==
    [el |-> "text", class |-> class, x |-> x, y |-> y, text_anchor |-> anchor,
     content |-> content]

\* The datasets of the model: stars and objects near the chart centre, at the
\* plot edge, outside the plot, and behind the sphere.
MaxStars == 2
MaxObjects == 2

StarPool ==
    {CelestialObject("star", "HIP", "1", EQPoint(0, 0), 0, "Vega"),
     CelestialObject("star", "HIP", "2", EQPoint(359, 0), 10, ""),
     CelestialObject("star", "HIP", "3", EQPoint(1, 2), 20, ""),
     CelestialObject("star", "HIP", "4", EQPoint(30, 0), 5, "Edge"),
     CelestialObject("star", "HIP", "5", EQPoint(180, 0), 0, "Back"),
     CelestialObject("star", "HIP", "6", EQPoint(0, 1), 105, "")}

ObjectPool ==
    {CelestialObject("open-cluster", "M", "1", EQPoint(0, 0), 60, ""),
     CelestialObject("open-cluster", "M", "2", EQPoint(359, 0), 70, ""),
     CelestialObject("galaxy", "NGC", "3", EQPoint(0, 1), 90, ""),
     CelestialObject("galaxy", "M", "4", EQPoint(1, 0), 120, ""),
     CelestialObject("open-cluster", "NGC", "5", EQPoint(40, 0), 70, ""),
     CelestialObject("globular-cluster", "M", "7", EQPoint(359, 0), 10, "")}

SeqsOver(S, n) == UNION {[1..k -> S] : k \in 0..n}

\* context.rs:16-20, ChartContext::new over the datasets of the model
InitContextLabels ==
    /\ data \in [stars : SeqsOver(StarPool, MaxStars),
                 objects : SeqsOver(ObjectPool, MaxObjects)]
    /\ cfg = ChartConfig_default
    /\ layout = ChartLayout_from(cfg)
    /\ quarter_above = FALSE

InitLabelsIdle ==
    /\ placed = <<>>
    /\ cands = <<>>
    /\ cand_i = 0
    /\ label_out = <<>>
    /\ chosen = <<>>
    /\ labels_pc = "idle"

\* labels.rs:116-117
InitLabelsCall ==
    /\ placed = <<>>
    /\ cands = <<>>
    /\ cand_i = 0
    /\ label_out = <<>>
    /\ chosen = <<>>
    /\ labels_pc = "seed"

\* labels.rs:118
SeedSymbolBoxes ==
    /\ labels_pc = "seed"
    /\ placed' = seed_symbol_boxes(data, cfg, layout, quarter_above)
    /\ labels_pc' = "build"
    /\ UNCHANGED <<cands, cand_i, label_out, chosen>>
    /\ UNCHANGED <<contextVars, notLabels>>

\* labels.rs:128-183
BuildCandidates ==
    /\ labels_pc = "build"
    /\ cands' = BuildCands(data, cfg, layout, quarter_above)
    /\ cand_i' = 1
    /\ labels_pc' = "place"
    /\ UNCHANGED <<placed, label_out, chosen>>
    /\ UNCHANGED <<contextVars, notLabels>>

\* The variant also keeps the label clear of the first-offset boxes of the
\* candidates that are still to come.
PlaceCandidateLookahead ==
    /\ labels_pc = "place"
    /\ cand_i <= Len(cands)
    /\ LET c == cands[cand_i]
           later == [j \in 1..(Len(cands) - cand_i) |-> OffsetBox(cands[cand_i + j], 1)]
           k == FirstValidOffset(c, placed \o later, layout)
           b == OffsetBox(c, k)
           cls == IF c.is_star THEN "star-label" ELSE "object-label"
       IN  /\ IF k = 0
              THEN UNCHANGED <<placed, label_out>>
              ELSE /\ placed' = Append(placed, b)
                   /\ label_out' = Append(label_out,
                         text(cls, c.p.x + offsets[k][1], b.y + b.h, "middle", c.text))
           /\ chosen' = Append(chosen, k)
    /\ cand_i' = cand_i + 1
    /\ UNCHANGED <<cands, labels_pc>>
    /\ UNCHANGED <<contextVars, notLabels>>

\* labels.rs:185-210, one iteration of the loop over the candidates
PlaceCandidate ==
    /\ labels_pc = "place"
    /\ cand_i <= Len(cands)
    /\ LET c == cands[cand_i]
           k == FirstValidOffset(c, placed, layout)
           b == OffsetBox(c, k)
           cls == IF c.is_star THEN "star-label" ELSE "object-label"
       IN  IF k = 0
           THEN UNCHANGED <<placed, label_out>>
           ELSE /\ placed' = Append(placed, b)
                /\ label_out' = Append(label_out,
                      text(cls, c.p.x + offsets[k][1], b.y + b.h, "middle", c.text))
    /\ chosen' = Append(chosen, FirstValidOffset(cands[cand_i], placed, layout))
    /\ cand_i' = cand_i + 1
    /\ UNCHANGED <<cands, labels_pc>>
    /\ UNCHANGED <<contextVars, notLabels>>

\* labels.rs:212
ReturnLabels ==
    /\ labels_pc = "place"
    /\ cand_i > Len(cands)
    /\ labels_pc' = "done"
    /\ UNCHANGED <<placed, cands, cand_i, label_out, chosen>>
    /\ UNCHANGED <<contextVars, notLabels>>

NextLabels ==
    \/ SeedSymbolBoxes
    \/ BuildCandidates
    \/ PlaceCandidate
    \/ ReturnLabels

----------------------------------------------------------------------------
(* layers/frame.rs: FrameLayer; layers/grid.rs: GridLayer *)

(* The polylines of a meridian or parallel, split_segments(sample_..(..)),  *)
(* are inputs of the model: lines holds, for the RA tick indices i (RA      *)
(* 3.75 * i degrees) and the declinations d that have any, the segments.    *)
Line(kind, value, line_segs) == [kind |-> kind, value |-> value, segs |-> line_segs]

\* frame.rs:167-168 and 216-217, grid.rs:29 and 50: the segments of a line.
SegsOf(kind, value) ==
    IF \E ln \in lines : ln.kind = kind /\ ln.value = value
    THEN (CHOOSE ln \in lines : ln.kind = kind /\ ln.value = value).segs
    ELSE <<>>

RaLines ==
    {Line("ra", 0, <<<<Point(40000, 3500), Point(40000, 76500)>>>>),
     Line("ra", 1, <<<<Point(39300, 3500), Point(39300, 4000), Point(39300, 76500)>>>>),
     Line("ra", 4, <<<<Point(36000, 3500), Point(35000, 4500), Point(35000, 76500)>>>>),
     Line("ra", 5, <<<<Point(35502, 3500), Point(35502, 5000)>>,
                     <<Point(34300, 75000), Point(34300, 76500)>>>>),
     Line("ra", 8, <<<<Point(4000, 3500), Point(4000, 76500)>>>>),
     Line("ra", 12, <<<<Point(3000, 3500), Point(3000, 76500)>>, <<Point(3000, 100)>>>>)}

DecLines ==
    {Line("dec", 0, <<<<Point(3500, 40000), Point(76500, 40000)>>>>),
     Line("dec", 2, <<<<Point(3500, 38900), Point(4000, 38900), Point(76500, 38900)>>>>),
     Line("dec", 10, <<<<Point(3500, 34000), Point(4500, 33000), Point(76500, 33000)>>>>),
     Line("dec", -10, <<<<Point(3500, 46000), Point(76500, 46000)>>>>),
     Line("dec", -4, <<<<Point(3500, 42200), Point(4500, 42200)>>>>)}

LineProfiles ==
    {{}, RaLines, DecLines, RaLines \cup DecLines,
     {ln \in RaLines \cup DecLines : ln.value \in {0, 1}},
     {ln \in RaLines \cup DecLines : ln.value \in {4, 5, -10}}}

\* The configured steps of the model (config.rs:30-31).
StepRaValues == {0, 15, 30}
StepDecValues == {0, 4, 10}

InitLinesIdle == lines = {}

\* context.rs:16-20, ChartContext::new over the configurations of the model
InitContextGraticule ==
    /\ data = [stars |-> <<>>, objects |-> <<>>]
    /\ \E sr \in StepRaValues, sd \in StepDecValues :
           cfg = [ChartConfig_default EXCEPT !.step_ra_deg = sr, !.step_dec_deg = sd]
    /\ layout = ChartLayout_from(cfg)
    /\ quarter_above = FALSE
    /\ lines \in LineProfiles

\* frame.rs:17-23
Mark(mx, my, side, label) == [x |-> mx, y |-> my, side |-> side, label |-> label]

\* frame.rs:29-34; the variant leaves the label out of the key.
MarkKeyNoLabel(m) == <<m.side, RoundDiv(m.x, 10), RoundDiv(m.y, 10)>>
MarkKey(m) == <<m.side, RoundDiv(m.x, 10), RoundDiv(m.y, 10), m.label>>

\* frame.rs:28-38, the loop over the marks from index i on; seen is the
\* hash set of keys.
RECURSIVE DedupLoop(_, _, _)
DedupLoop(marks, i, seen) ==
    IF i > Len(marks) THEN <<>>
    ELSE IF MarkKey(marks[i]) \in seen THEN DedupLoop(marks, i + 1, seen)
    ELSE <<marks[i]>> \o DedupLoop(marks, i + 1, seen \cup {MarkKey(marks[i])})

\* The rank of a mark's key in the iteration order of the hash set of the
\* current call: the keys by side, place and label, forwards or backwards.
SideRank(side) ==
    CASE side = "Top" -> 0 [] side = "Bottom" -> 1 [] side = "Left" -> 2 [] OTHER -> 3
HashRank(m) ==
    LET r == ((SideRank(m.side) * 100 + (RoundDiv(m.x, 10) % 100)) * 100
                 + (RoundDiv(m.y, 10) % 100)) * 10 + Len(m.label)
    IN  IF dd_run \in 1..Len(dd_seeds) /\ dd_seeds[dd_run] = "backwards" THEN -r ELSE r

RECURSIVE InsertByHashRank(_, _)
InsertByHashRank(sorted, m) ==
    IF sorted = <<>> THEN <<m>>
    ELSE IF HashRank(Head(sorted)) <= HashRank(m)
         THEN <<Head(sorted)>> \o InsertByHashRank(Tail(sorted), m)
         ELSE <<m>> \o sorted

RECURSIVE SortByHashRank(_)
SortByHashRank(ms) ==
    IF ms = <<>> THEN <<>>
    ELSE InsertByHashRank(SortByHashRank(Tail(ms)), Head(ms))

\* The variant returns the kept marks in the iteration order of the hash set.
dedup_marks_in_set_order(marks) == SortByHashRank(DedupLoop(marks, 1, {}))

\* frame.rs:25-40
dedup_marks(marks) == DedupLoop(marks, 1, {})

Sign(a) == IF a > 0 THEN 1 ELSE IF a < 0 THEN -1 ELSE 0

\* frame.rs:61, 75, 89, 103: (v1 - line) * (v2 - line) <= 0.0
Straddles(v1, v2, line) == Sign(v1 - line) * Sign(v2 - line) <= 0

\* frame.rs:62-63: t = num / den lies in 0.0..=1.0
TInUnit(num, den) ==
    IF den > 0 THEN 0 <= num /\ num <= den ELSE den <= num /\ num <= 0

\* frame.rs:64, 78, 92, 106: v1 + t * dv, with t = num / den
Interpolate(v1, num, den, dv) ==
    IF den > 0 THEN v1 + RoundDiv(num * dv, den) ELSE v1 + RoundDiv(-(num * dv), -den)

\* frame.rs:57-116, the marks of one window (a, b) of the polyline
WindowHits(a, b, want, top, bottom, left, right) ==
    LET dx == b.x - a.x
        dy == b.y - a.y
        HorizontalHit(side, line) ==
            IF side \in want /\ dy # 0 /\ Straddles(a.y, b.y, line)
               /\ TInUnit(line - a.y, dy)
               /\ Interpolate(a.x, line - a.y, dy, dx) >= left
               /\ Interpolate(a.x, line - a.y, dy, dx) <= right
            THEN <<Mark(Interpolate(a.x, line - a.y, dy, dx), line, side, "")>>
            ELSE <<>>
        VerticalHit(side, line) ==
            IF side \in want /\ dx # 0 /\ Straddles(a.x, b.x, line)
               /\ TInUnit(line - a.x, dx)
               /\ Interpolate(a.y, line - a.x, dx, dy) >= top
               /\ Interpolate(a.y, line - a.x, dx, dy) <= bottom
            THEN <<Mark(line, Interpolate(a.y, line - a.x, dx, dy), side, "")>>
            ELSE <<>>
    IN  HorizontalHit("Top", top) \o HorizontalHit("Bottom", bottom)
        \o VerticalHit("Left", left) \o VerticalHit("Right", right)

\* The variant looks for crossings of all four sides.
edge_hits_every_side(poly, want, top, bottom, left, right) ==
    Flatten([w \in 1..(Len(poly) - 1) |->
                WindowHits(poly[w], poly[w + 1], {"Top", "Bottom", "Left", "Right"},
                           top, bottom, left, right)])

\* frame.rs:42-119
edge_hits(poly, want, top, bottom, left, right) ==
    Flatten([w \in 1..(Len(poly) - 1) |->
                WindowHits(poly[w], poly[w + 1], want, top, bottom, left, right)])

\* frame.rs:138-139
FrameTop == layout.plot_y
FrameBottom == layout.plot_y + layout.plot_h
FrameLeft == layout.plot_x
FrameRight == layout.plot_x + layout.plot_w

\* frame.rs:168-169 and 217-218: the marks of all segments of a line
LineHits(kind, value, want) ==
    LET line_segs == SegsOf(kind, value)
    IN  Flatten([k \in 1..Len(line_segs) |->
                    edge_hits(line_segs[k], want, FrameTop, FrameBottom, FrameLeft, FrameRight)])

\* frame.rs:155-156: n = floor(24 / (3.75 / 15)) ticks, a quarter of an hour
\* apart
RaTickCount == 96

\* frame.rs:128-129: fine_step_dec_deg
fine_step_dec_deg == 2

\* The variant takes a tick for major when it is within half a step of a
\* multiple of the step.
is_major_nearest(i, step) == step # 0

\* frame.rs:157-161, for the RA 3.75 * i degrees of tick i.  With step 0 the
\* quotient is infinite or NaN and the difference NaN: never major.
is_major(i, step) ==
    IF step = 0 THEN FALSE
    ELSE 15 * i - RoundDiv(15 * i, 4 * step) * (4 * step) = 0

\* frame.rs:171: format!("{:.0}h", h.round()) with h = i / 4
RaLabel(i) == ToString(RoundDiv(i, 4)) \o "h"

\* frame.rs:220
DecLabel(d) == ToString(d) \o "Â°"

\* i32 remainder, with the sign of the dividend (frame.rs:219)
Rem(a, b) == IF a >= 0 THEN a % Abs(b) ELSE -((-a) % Abs(b))

\* frame.rs:170-174 and 219-223: a labelled mark is pushed twice
RECURSIVE PushMarks(_, _, _)
PushMarks(hits, major, label) ==
    IF hits = <<>> THEN <<>>
    ELSE LET m == Head(hits)
             labelled == [m EXCEPT !.label = label]
         IN  (IF major THEN <<labelled, labelled>> ELSE <<m>>)
             \o PushMarks(Tail(hits), major, label)

FrameLine(x1, y1, x2, y2) ==
    [el |-> "line", x1 |-> x1, y1 |-> y1, x2 |-> x2, y2 |-> y2, class |-> "tick"]

\* frame.rs:142-151
FrameBorder ==
    [el |-> "rect", x |-> layout.plot_x, y |-> layout.plot_y,
     width |-> layout.plot_w, height |-> layout.plot_h, class |-> "border"]

\* frame.rs:180-210, the primitives of one RA mark
DrawRaMark(m) ==
    CASE m.side = "Top" ->
           LET len == IF m.label = "" THEN 300 ELSE 600
           IN  <<FrameLine(m.x, FrameTop, m.x, FrameTop - len)>>
               \o (IF m.label # ""
                   THEN <<text("tick-label", m.x, FrameTop - 1000, "middle", m.label)>>
                   ELSE <<>>)
      [] m.side = "Bottom" ->
           LET len == 600
           IN  <<FrameLine(m.x, FrameBottom, m.x, FrameBottom + len)>>
               \o (IF m.label # ""
                   THEN <<text("tick-label", m.x, FrameBottom + 2000, "middle", m.label)>>
                   ELSE <<>>)
      [] OTHER -> <<>>

\* frame.rs:229-265, the primitives of one Dec mark
DrawDecMark(m) ==
    CASE m.side = "Left" ->
           LET len == IF m.label = "" THEN 300 ELSE 600
           IN  <<FrameLine(FrameLeft, m.y, FrameLeft - len, m.y)>>
               \o (IF m.label # ""
                   THEN <<text("tick-label", FrameLeft - 1000, m.y + 400, "end", m.label)>>
                   ELSE <<>>)
      [] m.side = "Right" ->
           LET len == IF m.label = "" THEN 300 ELSE 600
           IN  <<FrameLine(FrameRight, m.y, FrameRight + len, m.y)>>
               \o (IF m.label # ""
                   THEN <<text("tick-label", FrameRight + 1000, m.y + 400, "start", m.label)>>
                   ELSE <<>>)
      [] OTHER -> <<>>

\* frame.rs:179-211
DrawRaMarks(marks) == Flatten([k \in 1..Len(marks) |-> DrawRaMark(marks[k])])

\* frame.rs:228-266
DrawDecMarks(marks) == Flatten([k \in 1..Len(marks) |-> DrawDecMark(marks[k])])

InitFrameIdle ==
    /\ frame_i = 0
    /\ ra_marks = <<>>
    /\ dec_marks = <<>>
    /\ frame_out = <<>>
    /\ frame_pc = "idle"

\* frame.rs:135-139
InitFrameCall ==
    /\ frame_i = 0
    /\ ra_marks = <<>>
    /\ dec_marks = <<>>
    /\ frame_out = <<>>
    /\ frame_pc = "border"

\* frame.rs:141-156
DrawBorder ==
    /\ frame_pc = "border"
    /\ frame_out' = <<FrameBorder>>
    /\ frame_i' = 0
    /\ frame_pc' = "ra_loop"
    /\ UNCHANGED <<ra_marks, dec_marks>>
    /\ UNCHANGED <<contextVars, linesVars, notFrame>>

\* frame.rs:163-177, one iteration of the loop over the RA ticks
RaTick ==
    /\ frame_pc = "ra_loop"
    /\ frame_i < RaTickCount
    /\ ra_marks' = ra_marks \o PushMarks(LineHits("ra", frame_i, {"Top", "Bottom"}),
                                         is_major(frame_i, cfg.step_ra_deg),
                                         RaLabel(frame_i))
    /\ frame_i' = frame_i + 1
    /\ UNCHANGED <<dec_marks, frame_out, frame_pc>>
    /\ UNCHANGED <<contextVars, linesVars, notFrame>>

\* frame.rs:179-215, the loop that draws the RA marks
DrawRaTicks ==
    /\ frame_pc = "ra_loop"
    /\ frame_i >= RaTickCount
    /\ frame_out' = frame_out \o DrawRaMarks(dedup_marks(ra_marks))
    /\ frame_i' = -80
    /\ frame_pc' = "dec_loop"
    /\ UNCHANGED <<ra_marks, dec_marks>>
    /\ UNCHANGED <<contextVars, linesVars, notFrame>>

\* frame.rs:215-226, one iteration of the loop over the Dec ticks.  The
\* remainder is taken once per mark: with marks and step_dec_deg = 0 it
\* panics (remainder with a divisor of zero).
DecTick ==
    /\ frame_pc = "dec_loop"
    /\ frame_i <= 90
    /\ LET hits == LineHits("dec", frame_i, {"Left", "Right"})
       IN  IF hits # <<>> /\ cfg.step_dec_deg = 0
           THEN /\ frame_pc' = "panic"
                /\ UNCHANGED <<frame_i, dec_marks>>
           ELSE /\ dec_marks' = dec_marks \o
                       PushMarks(hits,
                                 cfg.step_dec_deg # 0 /\ Rem(frame_i, cfg.step_dec_deg) = 0,
                                 DecLabel(frame_i))
                /\ frame_i' = frame_i + fine_step_dec_deg
                /\ UNCHANGED frame_pc
    /\ UNCHANGED <<ra_marks, frame_out>>
    /\ UNCHANGED <<contextVars, linesVars, notFrame>>

\* frame.rs:228-268, the loop that draws the Dec marks, and the return
DrawDecTicks ==
    /\ frame_pc = "dec_loop"
    /\ frame_i > 90
    /\ frame_out' = frame_out \o DrawDecMarks(dedup_marks(dec_marks))
    /\ frame_pc' = "done"
    /\ UNCHANGED <<frame_i, ra_marks, dec_marks>>
    /\ UNCHANGED <<contextVars, linesVars, notFrame>>

NextFrame ==
    \/ DrawBorder
    \/ RaTick
    \/ DrawRaTicks
    \/ DecTick
    \/ DrawDecTicks

\* grid.rs:21-24
GridRaStepH(c) == Max(RoundDiv(c.step_ra_deg, 15), 1)

\* grid.rs:29-42 and 50-63: one path per segment of at least two points
RECURSIVE GridPaths(_, _)
GridPaths(class, line_segs) ==
    IF line_segs = <<>> THEN <<>>
    ELSE (IF Len(Head(line_segs)) < 2 THEN <<>>
          ELSE <<[el |-> "path", class |-> class, d |-> Head(line_segs)]>>)
         \o GridPaths(class, Tail(line_segs))

\* The Dec loop of grid.rs:49-65 has no bound of its own when step_dec_deg is
\* 0; the model stops counting its iterations here.
MaxGridIters == 180

InitGridIdle ==
    /\ grid_h = 0
    /\ grid_dec = 0
    /\ grid_out = <<>>
    /\ grid_iters = 0
    /\ grid_pc = "idle"

\* grid.rs:16-26
InitGridCall ==
    /\ grid_h = 0
    /\ grid_dec = 0
    /\ grid_out = <<>>
    /\ grid_iters = 0
    /\ grid_pc = "ra_loop"

\* grid.rs:27-44, one iteration of the loop over the hours
GridMeridian ==
    /\ grid_pc = "ra_loop"
    /\ grid_h < 24
    /\ grid_out' = grid_out \o GridPaths("graticule ra", SegsOf("ra", 4 * grid_h))
    /\ grid_h' = grid_h + GridRaStepH(cfg)
    /\ UNCHANGED <<grid_dec, grid_iters, grid_pc>>
    /\ UNCHANGED <<contextVars, linesVars, notGrid>>

\* grid.rs:46-48
GridStartDec ==
    /\ grid_pc = "ra_loop"
    /\ grid_h >= 24
    /\ grid_dec' = -80
    /\ grid_pc' = "dec_loop"
    /\ UNCHANGED <<grid_h, grid_out, grid_iters>>
    /\ UNCHANGED <<contextVars, linesVars, notGrid>>

\* grid.rs:49-65, one iteration of the loop over the declinations
GridParallel ==
    /\ grid_pc = "dec_loop"
    /\ grid_dec <= 90
    /\ grid_iters < MaxGridIters
    /\ grid_out' = grid_out \o GridPaths("graticule dec", SegsOf("dec", grid_dec))
    /\ grid_dec' = grid_dec + cfg.step_dec_deg
    /\ grid_iters' = grid_iters + 1
    /\ UNCHANGED <<grid_h, grid_pc>>
    /\ UNCHANGED <<contextVars, linesVars, notGrid>>

\* grid.rs:67
GridReturn ==
    /\ grid_pc = "dec_loop"
    /\ grid_dec > 90
    /\ grid_pc' = "done"
    /\ UNCHANGED <<grid_h, grid_dec, grid_out, grid_iters>>
    /\ UNCHANGED <<contextVars, linesVars, notGrid>>

NextGrid ==
    \/ GridMeridian
    \/ GridStartDec
    \/ GridParallel
    \/ GridReturn

----------------------------------------------------------------------------
(* layers/labels.rs: boxes_overlap on its own *)

\* The boxes of the model: corners 0..MaxBoxCoord, sides 1..MaxBoxSide.
MaxBoxCoord == 2
MaxBoxSide == 2

OverlapBoxes ==
    {Box(bx, by, bw, bh) : bx \in 0..MaxBoxCoord, by \in 0..MaxBoxCoord,
                           bw \in 1..MaxBoxSide, bh \in 1..MaxBoxSide}

InitOverlapIdle ==
    /\ overlap_boxes = <<>>
    /\ overlap_out = <<>>
    /\ overlap_pc = "idle"

InitOverlapCall ==
    /\ overlap_boxes \in OverlapBoxes \X OverlapBoxes
    /\ overlap_out = <<>>
    /\ overlap_pc = "call"

\* labels.rs:30-34, called as (a, b) and as (b, a)
BoxesOverlap ==
    /\ overlap_pc = "call"
    /\ overlap_out' = <<boxes_overlap(overlap_boxes[1], overlap_boxes[2]),
                        boxes_overlap(overlap_boxes[2], overlap_boxes[1])>>
    /\ overlap_pc' = "done"
    /\ UNCHANGED overlap_boxes
    /\ UNCHANGED notOverlap

----------------------------------------------------------------------------
(* geometry.rs: sample_ra_meridian and sample_dec_parallel *)

\* A u32 as its two 16-bit halves, and Option<u32>.
U32(hi, lo) == [hi |-> hi, lo |-> lo]
NoStep == [some |-> FALSE, hi |-> 0, lo |-> 0]
SomeStep(u) == [some |-> TRUE, hi |-> u.hi, lo |-> u.lo]

MinI32 == -2147483647 - 1
MaxI32 == 2147483647

\* geometry.rs:124 and 153, `step as i32`: the same 32 bits read as signed.
as_i32(u) ==
    IF u.hi >= 32768 THEN (u.hi - 65536) * 65536 + u.lo
    ELSE u.hi * 65536 + u.lo

\* i32 addition: whether a + b leaves the type, and the sum the wrapping
\* addition of a build without overflow checks gives.
AddOverflows(a, b) ==
    \/ b > 0 /\ a > MaxI32 - b
    \/ b < 0 /\ a < MinI32 - b
WrappingAdd(a, b) ==
    IF b > 0 /\ a > MaxI32 - b THEN ((a - MaxI32) - 1) + (b + MinI32)
    ELSE IF b < 0 /\ a < MinI32 - b THEN ((a + ((b + MaxI32) + 1)) + MaxI32) + 1
    ELSE a + b

\* geometry.rs:104 and 134, the step of a call
StepOf(step_opt, c) ==
    IF step_opt.some THEN U32(step_opt.hi, step_opt.lo)
    ELSE U32(0, adaptive_step_deg(c.fov_deg))

\* geometry.rs:105, f64::rem_euclid(360.0)
rem_euclid_360(a) == a % 360

\* geometry.rs:107-108 and 136-137, where the loop starts and while it runs
LoopStart(kind) == IF kind = "sample_ra_meridian" THEN -90 ELSE 0
LoopRuns(kind, i) == IF kind = "sample_ra_meridian" THEN i <= 90 ELSE i < 360

\* geometry.rs:110-113 and 139-142, the sky point of one pass.  `r as f64` is
\* exact; the model reduces it by whole turns to keep it in the range of its
\* sine table.
SamplePoint(call, i) ==
    IF call.kind = "sample_ra_meridian"
    THEN EQPoint(rem_euclid_360(call.arg), i)
    ELSE EQPoint(i % 360, call.arg)

\* geometry.rs:109-123 and 138-152, out after one pass of the loop body
PushSample(out, call, i, c, l, above) ==
    LET px == ProjectToPixels(SamplePoint(call, i), c, l, above)
    IN  IF px.some THEN Append(out, Point(px.x, px.y)) ELSE out

\* The loops are followed for MaxSamples passes.
MaxSamples == 400

\* The steps of the model: steps that divide the range and steps that do not,
\* steps beyond the range, and steps of 2^31 and more (2^31, 2^32 - 30,
\* 2^32 - 1).
SampleSteps ==
    {U32(0, s) : s \in {25, 30, 45, 60, 100, 181, 400}}
        \cup {U32(32768, 0), U32(65535, 65506), U32(65535, 65535)}

SampleCalls ==
    [kind : {"sample_ra_meridian"}, arg : {0, 90, -30},
     step_opt : {NoStep} \cup {SomeStep(u) : u \in SampleSteps}]
    \cup [kind : {"sample_dec_parallel"}, arg : {0, 60},
          step_opt : {NoStep} \cup {SomeStep(u) : u \in SampleSteps}]

\* context.rs:16-20, ChartContext::new over the configurations of the model
InitContextSampler ==
    /\ data = [stars |-> <<>>, objects |-> <<>>]
    /\ \E p \in {"Gnomonic", "Stereographic"}, ce \in {EQPoint(0, 0), EQPoint(90, 30)} :
           cfg = [ChartConfig_default EXCEPT !.projection = p, !.center = ce]
    /\ layout = ChartLayout_from(cfg)
    /\ quarter_above \in BOOLEAN

InitSamplerIdle ==
    /\ samp_call = [kind |-> "none", arg |-> 0, step_opt |-> NoStep]
    /\ samp_step = 0
    /\ samp_i = 0
    /\ samp_visited = <<>>
    /\ samp_out = <<>>
    /\ samp_pc = "idle"

InitSamplerCall ==
    /\ samp_call \in SampleCalls
    /\ samp_step = 0
    /\ samp_i = 0
    /\ samp_visited = <<>>
    /\ samp_out = <<>>
    /\ samp_pc = "call"

\* geometry.rs:104-107 and 134-136
SampleEnter ==
    /\ samp_pc = "call"
    /\ samp_step' = as_i32(StepOf(samp_call.step_opt, cfg))
    /\ samp_i' = LoopStart(samp_call.kind)
    /\ samp_pc' = "loop"
    /\ UNCHANGED <<samp_call, samp_visited, samp_out>>
    /\ UNCHANGED <<contextVars, notSampler>>

\* geometry.rs:108-125 and 137-154, one pass of the loop
SamplePass ==
    /\ samp_pc = "loop"
    /\ LoopRuns(samp_call.kind, samp_i)
    /\ Len(samp_visited) < MaxSamples
    /\ ~AddOverflows(samp_i, samp_step)
    /\ samp_visited' = Append(samp_visited, samp_i)
    /\ samp_out' = PushSample(samp_out, samp_call, samp_i, cfg, layout, quarter_above)
    /\ samp_i' = samp_i + samp_step
    /\ UNCHANGED <<samp_call, samp_step, samp_pc>>
    /\ UNCHANGED <<contextVars, notSampler>>

\* geometry.rs:124 and 153, a pass whose addition leaves i32: a build with
\* overflow checks panics, a build without them wraps.
SamplePassOverflow ==
    /\ samp_pc = "loop"
    /\ LoopRuns(samp_call.kind, samp_i)
    /\ Len(samp_visited) < MaxSamples
    /\ AddOverflows(samp_i, samp_step)
    /\ samp_visited' = Append(samp_visited, samp_i)
    /\ samp_out' = PushSample(samp_out, samp_call, samp_i, cfg, layout, quarter_above)
    /\ \/ samp_pc' = "panic" /\ samp_i' = samp_i
       \/ samp_pc' = "loop" /\ samp_i' = WrappingAdd(samp_i, samp_step)
    /\ UNCHANGED <<samp_call, samp_step>>
    /\ UNCHANGED <<contextVars, notSampler>>

\* geometry.rs:126 and 155
SampleReturn ==
    /\ samp_pc = "loop"
    /\ ~LoopRuns(samp_call.kind, samp_i)
    /\ samp_pc' = "done"
    /\ UNCHANGED <<samp_call, samp_step, samp_i, samp_visited, samp_out>>
    /\ UNCHANGED <<contextVars, notSampler>>

NextSampler == SampleEnter \/ SamplePass \/ SamplePassOverflow \/ SampleReturn

----------------------------------------------------------------------------
(* data/objects.rs: parse_objects_from_reader; layers/objects.rs: ObjectsLayer *)

\* A text field of a row: <<>> when it does not parse as a number, <<v>> when
\* it parses as v.  types.rs:66-68
parse_or(field, default) == IF field = <<>> THEN default ELSE field[1]

\* objects.rs:171-179, the least of the five magnitudes, 20.0 for each missing
RowMagnitude(row) ==
    LET m(i) == parse_or(row.mags[i], 200)
    IN  Min(Min(Min(m(1), m(2)), Min(m(3), m(4))), m(5))

\* objects.rs:159-161, 167-169 and 187-194, the rows the loop passes over
RowSkipped(row) == ~row.position_ok \/ KindContainsStar(row.kind)

\* objects.rs:202-211
RowObject(row) ==
    CelestialObject(row.kind, row.catalog, row.identifier, row.coords,
                    RowMagnitude(row), "")

\* objects.rs:158-212
RECURSIVE ParseRows(_)
ParseRows(rows) ==
    IF rows = <<>> THEN <<>>
    ELSE IF RowSkipped(Head(rows)) THEN ParseRows(Tail(rows))
    ELSE <<RowObject(Head(rows))>> \o ParseRows(Tail(rows))

\* objects.rs:215-219, the stable sort by ascending magnitude
RECURSIVE sort_by_magnitude(_)
sort_by_magnitude(out) ==
    IF out = <<>> THEN <<>>
    ELSE InsertByMagnitude(sort_by_magnitude(SubSeq(out, 1, Len(out) - 1)), out[Len(out)])

\* objects.rs:220; the variant leaves the vector as it is.
reverse_skipped(s) == s
reverse(s) == [i \in 1..Len(s) |-> s[Len(s) + 1 - i]]

\* objects.rs:154-222
parse_objects_from_reader(rows) == reverse(sort_by_magnitude(ParseRows(rows)))

\* layers/objects.rs:57-171, the glyph of an object: its id, its class and
\* its place (the glyph's size does not enter the order of the glyphs).
Glyph(o, p) ==
    [id |-> o.identifier,
     class |-> IF o.kind \in {"open-cluster", "globular-cluster", "bright-nebula",
                              "galaxy", "planetary-nebula"}
               THEN o.kind \o " object" ELSE "object",
     x |-> p.x, y |-> p.y, magnitude |-> o.magnitude]

Row(kind, catalog, identifier, coords, position_ok, mags) ==
    [kind |-> kind, catalog |-> catalog, identifier |-> identifier,
     coords |-> coords, position_ok |-> position_ok, mags |-> mags]

\* The rows of the model: bright and faint objects, two of one magnitude, a
\* row without magnitudes, a row beyond the limit, a row behind the center, a
\* double star and a row whose position does not parse.
RowPool ==
    {Row("galaxy", "M", "31", EQPoint(0, 0), TRUE, <<<<43>>, <<34>>, <<>>, <<>>, <<>>>>),
     Row("open-cluster", "M", "45", EQPoint(1, 0), TRUE, <<<<>>, <<16>>, <<>>, <<>>, <<>>>>),
     Row("globular-cluster", "NGC", "104", EQPoint(359, 0), TRUE, <<<<70>>, <<90>>, <<85>>, <<>>, <<>>>>),
     Row("planetary-nebula", "NGC", "7293", EQPoint(0, 1), TRUE, <<<<>>, <<>>, <<70>>, <<>>, <<>>>>),
     Row("bright-nebula", "IC", "434", EQPoint(1, 2), TRUE, <<<<>>, <<>>, <<>>, <<>>, <<>>>>),
     Row("milky-way", "Unknown", "B33", EQPoint(0, 0), TRUE, <<<<>>, <<105>>, <<>>, <<>>, <<250>>>>),
     Row("galaxy", "NGC", "55", EQPoint(180, 0), TRUE, <<<<80>>, <<>>, <<>>, <<>>, <<>>>>),
     Row("double-star", "NGC", "7", EQPoint(0, 0), TRUE, <<<<50>>, <<>>, <<>>, <<>>, <<>>>>),
     Row("galaxy", "NGC", "9", EQPoint(0, 0), FALSE, <<<<60>>, <<>>, <<>>, <<>>, <<>>>>)}

\* The largest number of rows of a reader.
MaxRows == 3

InitObjectsIdle ==
    /\ obj_rows = <<>>
    /\ obj_i = 0
    /\ obj_out = <<>>
    /\ obj_pc = "idle"

InitObjectsCall ==
    /\ obj_rows \in SeqsOver(RowPool, MaxRows)
    /\ obj_i = 0
    /\ obj_out = <<>>
    /\ obj_pc = "parse"

\* data/objects.rs:86-96 and 154-222, context.rs:16-20: the catalogue is
\* parsed and becomes the objects of the context.
LoadObjects ==
    /\ obj_pc = "parse"
    /\ data' = [data EXCEPT !.objects = parse_objects_from_reader(obj_rows)]
    /\ obj_i' = 1
    /\ obj_pc' = "render"
    /\ UNCHANGED <<cfg, layout, quarter_above, obj_rows, obj_out>>
    /\ UNCHANGED notObjects

\* layers/objects.rs:43-46, an object beyond the magnitude limit
RenderObjectSkip ==
    /\ obj_pc = "render"
    /\ obj_i <= Len(data.objects)
    /\ data.objects[obj_i].magnitude > cfg.limit_object_mag
    /\ obj_i' = obj_i + 1
    /\ UNCHANGED <<contextVars, obj_rows, obj_out, obj_pc>>
    /\ UNCHANGED notObjects

\* layers/objects.rs:43-172, one pass of the loop for an object within the
\* limit: a glyph if project returns a point, nothing otherwise
RenderObject ==
    /\ obj_pc = "render"
    /\ obj_i <= Len(data.objects)
    /\ data.objects[obj_i].magnitude <= cfg.limit_object_mag
    /\ LET o == data.objects[obj_i]
           p == ProjectToPixels(o.coords, cfg, layout, quarter_above)
       IN  obj_out' = IF p.some THEN Append(obj_out, Glyph(o, p)) ELSE obj_out
    /\ obj_i' = obj_i + 1
    /\ UNCHANGED <<contextVars, obj_rows, obj_pc>>
    /\ UNCHANGED notObjects

\* layers/objects.rs:174
ReturnObjects ==
    /\ obj_pc = "render"
    /\ obj_i > Len(data.objects)
    /\ obj_pc' = "done"
    /\ UNCHANGED <<contextVars, obj_rows, obj_i, obj_out>>
    /\ UNCHANGED notObjects

NextObjects == LoadObjects \/ RenderObjectSkip \/ RenderObject \/ ReturnObjects

----------------------------------------------------------------------------
(* layout.rs: ChartLayout::from, the plot rectangle and the center *)

\* u32 subtraction (layout.rs:19-20) on the 16-bit halves: whether a - b
\* leaves the type, and the difference the wrapping subtraction of a build
\* without overflow checks gives.
SubUnderflows(a, b) == a.hi < b.hi \/ (a.hi = b.hi /\ a.lo < b.lo)
WrappingSub(a, b) ==
    LET borrow == IF a.lo < b.lo THEN 1 ELSE 0
    IN  U32((a.hi - b.hi - borrow) % 65536, (a.lo - b.lo) % 65536)

\* `as f64` (layout.rs:17-20) is exact for a u32.  An f64 with an integer
\* value is carried as hi * 65536 + lo with 0 <= lo < 65536.
F64Sum(a, b) ==
    [hi |-> a.hi + b.hi + ((a.lo + b.lo) \div 65536), lo |-> (a.lo + b.lo) % 65536]
F64Less(a, b) == a.hi < b.hi \/ (a.hi = b.hi /\ a.lo < b.lo)
F64Min(a, b) == IF F64Less(b, a) THEN b ELSE a

\* layout.rs:17-24 and 29-31, with the wrapping subtraction.  center_px is
\* in half pixels (twice plot_x + plot_w / 2.0); min_side is
\* plot_w.min(plot_h), which radius_px, scale and split_threshold are
\* multiples of (ChartLayout_from computes them where the margins fit).
PlotRectangle(c) ==
    LET plot_x == c.margin.left
        plot_y == c.margin.top
        plot_w == WrappingSub(WrappingSub(c.width, c.margin.left), c.margin.right)
        plot_h == WrappingSub(WrappingSub(c.height, c.margin.top), c.margin.bottom)
    IN  [plot_x |-> plot_x, plot_y |-> plot_y, plot_w |-> plot_w, plot_h |-> plot_h,
         center_px |-> Point(F64Sum(F64Sum(plot_x, plot_x), plot_w),
                             F64Sum(F64Sum(plot_y, plot_y), plot_h)),
         min_side |-> F64Min(plot_w, plot_h)]

\* layout.rs:19-20, whether one of the four subtractions leaves u32
PlotUnderflows(c) ==
    \/ SubUnderflows(c.width, c.margin.left)
    \/ SubUnderflows(WrappingSub(c.width, c.margin.left), c.margin.right)
    \/ SubUnderflows(c.height, c.margin.top)
    \/ SubUnderflows(WrappingSub(c.height, c.margin.top), c.margin.bottom)

\* The widths, heights and margins of the model: 0, 40, 800, 65536, 2^32 - 1.
LayoutU32s == {U32(0, 0), U32(0, 40), U32(0, 800), U32(1, 0), U32(65535, 65535)}

LayoutConfigs ==
    [width : LayoutU32s, height : LayoutU32s,
     margin : [top : LayoutU32s, bottom : LayoutU32s, left : LayoutU32s, right : LayoutU32s]]

NoLayout ==
    [plot_x |-> U32(0, 0), plot_y |-> U32(0, 0), plot_w |-> U32(0, 0), plot_h |-> U32(0, 0),
     center_px |-> Point(U32(0, 0), U32(0, 0)), min_side |-> U32(0, 0)]

InitLayoutFromIdle ==
    /\ lay_cfg = [width |-> U32(0, 800), height |-> U32(0, 800),
                  margin |-> Margin_uniform(U32(0, 40))]
    /\ lay_out = NoLayout
    /\ lay_pc = "idle"

InitLayoutFromCall ==
    /\ lay_cfg \in LayoutConfigs
    /\ lay_out = NoLayout
    /\ lay_pc = "call"

\* layout.rs:15-43 for a configuration whose margins fit the canvas
LayoutFrom ==
    /\ lay_pc = "call"
    /\ ~PlotUnderflows(lay_cfg)
    /\ lay_out' = PlotRectangle(lay_cfg)
    /\ lay_pc' = "done"
    /\ UNCHANGED lay_cfg
    /\ UNCHANGED notLayoutFrom

\* layout.rs:19-20 for a configuration whose margins exceed the canvas: a
\* build with overflow checks panics at the subtraction, a build without them
\* goes on with the wrapped difference.
LayoutFromUnderflow ==
    /\ lay_pc = "call"
    /\ PlotUnderflows(lay_cfg)
    /\ \/ lay_pc' = "panic" /\ lay_out' = lay_out
       \/ lay_pc' = "done" /\ lay_out' = PlotRectangle(lay_cfg)
    /\ UNCHANGED lay_cfg
    /\ UNCHANGED notLayoutFrom

NextLayoutFrom == LayoutFrom \/ LayoutFromUnderflow

----------------------------------------------------------------------------
(* layers/frame.rs: dedup_marks, called twice on the same marks *)

\* The marks of the model: marks that differ in side, place or label, and a
\* mark within a tenth of a pixel of another.
MarkPool ==
    {Mark(10000, 4000, "Top", "2h"), Mark(10002, 4000, "Top", "2h"),
     Mark(10000, 4000, "Top", ""), Mark(30000, 76000, "Bottom", "4h"),
     Mark(4000, 20000, "Left", "10"), Mark(76000, 20000, "Right", "10")}

\* The largest number of marks of a call.
MaxMarks == 3

InitDedupIdle ==
    /\ dd_marks = <<>>
    /\ dd_seeds = <<>>
    /\ dd_run = 0
    /\ dd_out = <<>>
    /\ dd_pc = "idle"

InitDedupCall ==
    /\ dd_marks \in SeqsOver(MarkPool, MaxMarks)
    /\ dd_seeds \in [1..2 -> {"forwards", "backwards"}]
    /\ dd_run = 1
    /\ dd_out = <<>>
    /\ dd_pc = "call"

\* frame.rs:25-40, one call
DedupMarks ==
    /\ dd_pc = "call"
    /\ dd_out' = Append(dd_out, dedup_marks(dd_marks))
    /\ dd_run' = dd_run + 1
    /\ dd_pc' = IF dd_run = 2 THEN "done" ELSE "call"
    /\ UNCHANGED <<dd_marks, dd_seeds>>
    /\ UNCHANGED notDedup

----------------------------------------------------------------------------
(* layers/frame.rs: edge_hits on the polylines of a small grid *)

\* The rectangle of the calls, in hundredths of a pixel.  On whole pixels a
\* crossing lies on a bound or at least a quarter of a pixel from it, so the
\* tolerance of 1e-6 (frame.rs:65, 79, 93, 107) admits the boundary-exact
\* crossings and no other.
EdgeRect == [top |-> 100, bottom |-> 300, left |-> 100, right |-> 300]

\* The largest coordinate of a polyline, in whole pixels.
MaxEdgeCoord == 4

EdgePoints == {Point(100 * gx, 100 * gy) : gx \in 0..MaxEdgeCoord, gy \in 0..MaxEdgeCoord}
EdgeCoarsePoints ==
    {Point(200 * gx, 200 * gy) : gx \in 0..(MaxEdgeCoord \div 2), gy \in 0..(MaxEdgeCoord \div 2)}

EdgeWants ==
    {{"Top", "Bottom", "Left", "Right"}, {"Top", "Bottom"}, {"Left", "Right"}, {"Top"}, {}}

InitEdgeIdle ==
    /\ eh_poly = <<>>
    /\ eh_want = {}
    /\ eh_out = <<>>
    /\ eh_pc = "idle"

InitEdgeCall ==
    /\ eh_poly \in [1..2 -> EdgePoints] \cup [1..3 -> EdgeCoarsePoints]
    /\ eh_want \in EdgeWants
    /\ eh_out = <<>>
    /\ eh_pc = "call"

\* frame.rs:42-119
EdgeHits ==
    /\ eh_pc = "call"
    /\ eh_out' = edge_hits(eh_poly, eh_want, EdgeRect.top, EdgeRect.bottom, EdgeRect.left, EdgeRect.right)
    /\ eh_pc' = "done"
    /\ UNCHANGED <<eh_poly, eh_want>>
    /\ UNCHANGED notEdge

----------------------------------------------------------------------------
(* layers/frame.rs and layers/grid.rs: the major ticks and the drawn lines *)

\* i32 remainder (frame.rs:219) for every divisor but 0: Rem, and a % i32::MIN
\* = a for the dividends of the loop.
rem_i32(a, b) == IF b = MinI32 THEN a ELSE Rem(a, b)

\* frame.rs:215, (-80..=90).step_by(2)
DecTicks == {-80 + fine_step_dec_deg * k : k \in 0..(170 \div fine_step_dec_deg)}

\* frame.rs:219, the test of a Dec tick; `step_dec_deg as i32` reads the same
\* 32 bits as signed.
dec_is_major(d, step_dec_deg) == rem_i32(d, as_i32(step_dec_deg)) = 0

\* grid.rs:27-44, the hours of the loop `while h < 24`
GridHours(step_ra_deg) ==
    {h \in 0..23 : h % GridRaStepH([step_ra_deg |-> step_ra_deg]) = 0}

\* The steps of the model: step_ra_deg (cast to f64, exactly) from 1 to
\* MaxTickStep and some beyond; step_dec_deg (cast to i32) likewise, and
\* 2^31, 2^32 - 10 and 2^32 - 1.
MaxTickStep == 20
TickRaSteps == 1..MaxTickStep \cup {30, 40, 45, 60, 90, 360, 1000000}
TickDecSteps ==
    {U32(0, s) : s \in 1..MaxTickStep \cup {30, 45, 90, 200}}
        \cup {U32(32768, 0), U32(65535, 65526), U32(65535, 65535)}

\* The Dec loop of grid.rs:49-65 is followed for MaxTickIters passes.
MaxTickIters == 200

InitTicksIdle ==
    /\ tk_ra = 15
    /\ tk_dec = U32(0, 10)
    /\ tk_major_ra = {}
    /\ tk_major_dec = {}
    /\ tk_meridians = {}
    /\ tk_parallels = <<>>
    /\ tk_i = 0
    /\ tk_pc = "idle"

InitTicksCall ==
    /\ tk_ra \in TickRaSteps
    /\ tk_dec \in TickDecSteps
    /\ tk_major_ra = {}
    /\ tk_major_dec = {}
    /\ tk_meridians = {}
    /\ tk_parallels = <<>>
    /\ tk_i = 0
    /\ tk_pc = "frame"

\* frame.rs:153-177 and 213-226, the tests of the two tick loops
FrameClassify ==
    /\ tk_pc = "frame"
    /\ tk_major_ra' = {i \in 0..(RaTickCount - 1) : is_major(i, tk_ra)}
    /\ tk_major_dec' = {d \in DecTicks : dec_is_major(d, tk_dec)}
    /\ tk_pc' = "grid_ra"
    /\ UNCHANGED <<tk_ra, tk_dec, tk_meridians, tk_parallels, tk_i>>
    /\ UNCHANGED notTicks

\* grid.rs:20-48
GridHoursLoop ==
    /\ tk_pc = "grid_ra"
    /\ tk_meridians' = GridHours(tk_ra)
    /\ tk_i' = -80
    /\ tk_pc' = "grid_dec"
    /\ UNCHANGED <<tk_ra, tk_dec, tk_major_ra, tk_major_dec, tk_parallels>>
    /\ UNCHANGED notTicks

\* grid.rs:49-65, one pass of the loop `while dec <= 90`
GridDecPass ==
    /\ tk_pc = "grid_dec"
    /\ tk_i <= 90
    /\ Len(tk_parallels) < MaxTickIters
    /\ ~AddOverflows(tk_i, as_i32(tk_dec))
    /\ tk_parallels' = Append(tk_parallels, tk_i)
    /\ tk_i' = tk_i + as_i32(tk_dec)
    /\ UNCHANGED <<tk_ra, tk_dec, tk_major_ra, tk_major_dec, tk_meridians, tk_pc>>
    /\ UNCHANGED notTicks

\* grid.rs:64, a pass whose addition leaves i32: a build with overflow checks
\* panics, a build without them wraps.
GridDecPassOverflow ==
    /\ tk_pc = "grid_dec"
    /\ tk_i <= 90
    /\ Len(tk_parallels) < MaxTickIters
    /\ AddOverflows(tk_i, as_i32(tk_dec))
    /\ tk_parallels' = Append(tk_parallels, tk_i)
    /\ \/ tk_pc' = "panic" /\ tk_i' = tk_i
       \/ tk_pc' = "grid_dec" /\ tk_i' = WrappingAdd(tk_i, as_i32(tk_dec))
    /\ UNCHANGED <<tk_ra, tk_dec, tk_major_ra, tk_major_dec, tk_meridians>>
    /\ UNCHANGED notTicks

\* grid.rs:67
GridDecReturn ==
    /\ tk_pc = "grid_dec"
    /\ tk_i > 90
    /\ tk_pc' = "done"
    /\ UNCHANGED <<tk_ra, tk_dec, tk_major_ra, tk_major_dec, tk_meridians, tk_parallels, tk_i>>
    /\ UNCHANGED notTicks

NextTicks ==
    FrameClassify \/ GridHoursLoop \/ GridDecPass \/ GridDecPassOverflow \/ GridDecReturn

----------------------------------------------------------------------------
(* layers/stars.rs: StarsLayer *)

\* stars.rs:30, the radius of the circle of a star
star_radius(mag, scale) == RoundDiv(Max(400 - 6 * mag, 50) * scale, 10)

\* stars.rs:32-37
StarCircle(s, p, scale) ==
    [id |-> s.identifier, class |-> "star", cx |-> p.x, cy |-> p.y,
     r |-> star_radius(s.magnitude, scale), magnitude |-> s.magnitude]

\* The values of object_scale of the model, in tenths.
ObjectScales == {5, 10, 12, 20, 30}

\* context.rs:16-20, ChartContext::new over the stars and scales of the model
InitContextStars ==
    /\ data \in [stars : SeqsOver(StarPool, MaxStars), objects : {<<>>}]
    /\ \E sc \in ObjectScales : cfg = [ChartConfig_default EXCEPT !.object_scale = sc]
    /\ layout = ChartLayout_from(cfg)
    /\ quarter_above = FALSE

InitStarsIdle ==
    /\ star_i = 0
    /\ star_out = <<>>
    /\ star_pc = "idle"

InitStarsCall ==
    /\ star_i = 1
    /\ star_out = <<>>
    /\ star_pc = "render"

\* stars.rs:19-22, a star beyond the magnitude limit
RenderStarSkip ==
    /\ star_pc = "render"
    /\ star_i <= Len(data.stars)
    /\ data.stars[star_i].magnitude > cfg.limit_star_mag
    /\ star_i' = star_i + 1
    /\ UNCHANGED <<contextVars, star_out, star_pc>>
    /\ UNCHANGED notStars

\* stars.rs:19-39, one pass of the loop for a star within the limit
RenderStar ==
    /\ star_pc = "render"
    /\ star_i <= Len(data.stars)
    /\ data.stars[star_i].magnitude <= cfg.limit_star_mag
    /\ LET s == data.stars[star_i]
           p == ProjectToPixels(s.coords, cfg, layout, quarter_above)
       IN  star_out' = IF p.some THEN Append(star_out, StarCircle(s, p, cfg.object_scale))
                       ELSE star_out
    /\ star_i' = star_i + 1
    /\ UNCHANGED <<contextVars, star_pc>>
    /\ UNCHANGED notStars

\* stars.rs:41
ReturnStars ==
    /\ star_pc = "render"
    /\ star_i > Len(data.stars)
    /\ star_pc' = "done"
    /\ UNCHANGED <<contextVars, star_i, star_out>>
    /\ UNCHANGED notStars

NextStars == RenderStarSkip \/ RenderStar \/ ReturnStars

----------------------------------------------------------------------------
(* data/constellations.rs: parse_constellations_from_reader *)

\* types.rs:70-72, on whole hours
hours_to_degrees(hours) == hours * 15

\* constellations.rs:14-103, the entries of CONSTELLATION_NAMES the model uses;
\* constellations.rs:144-147, an unknown abbreviation gets the empty name.
ConstellationName(abbr) ==
    CASE abbr = "ORI" -> "Orion"
      [] abbr = "UMA" -> "Ursa Major"
      [] abbr = "LYR" -> "Lyra"
      [] OTHER -> ""

\* A record is its abbreviation and the coordinate pairs after it; a pair is
\* the two numbers its fields parse to (ok), or a pair with a field that is
\* empty or is not a number.  The record has 1 + 2 * Len(pairs) fields.
Pair(ra_h, dec_deg) == [ok |-> TRUE, ra_h |-> ra_h, dec_deg |-> dec_deg]

BadPair == [ok |-> FALSE, ra_h |-> 0, dec_deg |-> 0]

ConRecord(abbr, pairs) == [abbr |-> abbr, pairs |-> pairs]

RecordLen(rec) == 1 + 2 * Len(rec.pairs)

\* constellations.rs:157-170, the line of a record
RECURSIVE ParseLine(_)
ParseLine(pairs) ==
    IF pairs = <<>> THEN <<>>
    ELSE LET rest == ParseLine(Tail(pairs))
             f == Head(pairs)
         IN  IF ~f.ok THEN rest
             ELSE <<[ra_deg |-> hours_to_degrees(f.ra_h), dec_deg |-> f.dec_deg]>> \o rest

\* The records of the model.
ConRecordPool ==
    {ConRecord("ORI", <<Pair(5, 0), Pair(6, -8)>>),
     ConRecord("ORI", <<Pair(5, 7), BadPair, Pair(6, 7)>>),
     ConRecord("UMA", <<Pair(11, 60), Pair(12, 55)>>),
     ConRecord("LYR", <<BadPair>>),
     ConRecord("XYZ", <<Pair(1, 2)>>),
     ConRecord("UMA", <<>>)}

MaxConRecords == 3

InitConstellationsIdle ==
    /\ con_rows = <<>>
    /\ con_i = 0
    /\ by_abbr = <<>>
    /\ con_run = 0
    /\ con_out = <<>>
    /\ con_pc = "idle"

\* constellations.rs:131-134, the first of two invocations on the same input
InitConstellationsCall ==
    /\ con_rows \in SeqsOver(ConRecordPool, MaxConRecords)
    /\ con_i = 1
    /\ by_abbr = <<>>
    /\ con_run = 1
    /\ con_out = <<>>
    /\ con_pc = "records"

\* constellations.rs:136-141, a record with fewer than three fields
ParseRecordSkip ==
    /\ con_pc = "records"
    /\ con_i <= Len(con_rows)
    /\ RecordLen(con_rows[con_i]) < 3
    /\ con_i' = con_i + 1
    /\ UNCHANGED <<con_rows, by_abbr, con_run, con_out, con_pc>>
    /\ UNCHANGED notConstellations

\* constellations.rs:136-175, one pass of the loop over the records
ParseRecord ==
    /\ con_pc = "records"
    /\ con_i <= Len(con_rows)
    /\ RecordLen(con_rows[con_i]) >= 3
    /\ LET rec == con_rows[con_i]
           abbr == rec.abbr
           line == ParseLine(rec.pairs)
           entry == IF abbr \in DOMAIN by_abbr THEN by_abbr[abbr]
                    ELSE [name |-> ConstellationName(abbr), lines |-> <<>>]
           pushed == IF line # <<>> THEN [entry EXCEPT !.lines = Append(@, line)]
                     ELSE entry
       IN  by_abbr' = [a \in DOMAIN by_abbr \cup {abbr} |->
                          IF a = abbr THEN pushed ELSE by_abbr[a]]
    /\ con_i' = con_i + 1
    /\ UNCHANGED <<con_rows, con_run, con_out, con_pc>>
    /\ UNCHANGED notConstellations

\* constellations.rs:177, by_abbr.into_values().collect(): the values in the
\* iteration order of a HashMap, which depends on the keys of its RandomState
\* and is any order of the entries.  A second invocation follows the first.
CollectConstellations ==
    /\ con_pc = "records"
    /\ con_i > Len(con_rows)
    /\ \E order \in [1..Cardinality(DOMAIN by_abbr) -> DOMAIN by_abbr] :
          /\ \A i, j \in DOMAIN order : i # j => order[i] # order[j]
          /\ con_out' = Append(con_out, [i \in DOMAIN order |-> by_abbr[order[i]]])
    /\ IF con_run = 1
       THEN /\ con_run' = 2
            /\ con_i' = 1
            /\ by_abbr' = <<>>
            /\ UNCHANGED con_pc
       ELSE /\ con_pc' = "done"
            /\ UNCHANGED <<con_i, by_abbr, con_run>>
    /\ UNCHANGED con_rows
    /\ UNCHANGED notConstellations

NextConstellations == ParseRecordSkip \/ ParseRecord \/ CollectConstellations

----------------------------------------------------------------------------
(* Specifications *)

InitSplit == InitSplitCall /\ InitStepIdle /\ InitChartIdle /\ InitProjectIdle
    /\ InitContextIdle /\ InitLabelsIdle /\ InitLinesIdle /\ InitFrameIdle /\ InitGridIdle
    /\ InitOverlapIdle
    /\ InitSamplerIdle
    /\ InitObjectsIdle
    /\ InitLayoutFromIdle
    /\ InitDedupIdle
    /\ InitEdgeIdle
    /\ InitTicksIdle
    /\ InitStarsIdle
    /\ InitConstellationsIdle

SpecSplit == InitSplit /\ [][SplitSegments]_vars

InitStep == InitStepCall /\ InitSplitIdle /\ InitChartIdle /\ InitProjectIdle
    /\ InitContextIdle /\ InitLabelsIdle /\ InitLinesIdle /\ InitFrameIdle /\ InitGridIdle
    /\ InitOverlapIdle
    /\ InitSamplerIdle
    /\ InitObjectsIdle
    /\ InitLayoutFromIdle
    /\ InitDedupIdle
    /\ InitEdgeIdle
    /\ InitTicksIdle
    /\ InitStarsIdle
    /\ InitConstellationsIdle

SpecStep == InitStep /\ [][AdaptiveStep]_vars

InitChart == InitChartCall /\ InitSplitIdle /\ InitStepIdle /\ InitProjectIdle
    /\ InitContextIdle /\ InitLabelsIdle /\ InitLinesIdle /\ InitFrameIdle /\ InitGridIdle
    /\ InitOverlapIdle
    /\ InitSamplerIdle
    /\ InitObjectsIdle
    /\ InitLayoutFromIdle
    /\ InitDedupIdle
    /\ InitEdgeIdle
    /\ InitTicksIdle
    /\ InitStarsIdle
    /\ InitConstellationsIdle

SpecChart == InitChart /\ [][NextChart]_vars

InitProject == InitProjectCall /\ InitSplitIdle /\ InitStepIdle /\ InitChartIdle
    /\ InitContextIdle /\ InitLabelsIdle /\ InitLinesIdle /\ InitFrameIdle /\ InitGridIdle
    /\ InitOverlapIdle
    /\ InitSamplerIdle
    /\ InitObjectsIdle
    /\ InitLayoutFromIdle
    /\ InitDedupIdle
    /\ InitEdgeIdle
    /\ InitTicksIdle
    /\ InitStarsIdle
    /\ InitConstellationsIdle

SpecProject == InitProject /\ [][Project]_vars

InitLabels == InitLabelsCall /\ InitContextLabels /\ InitSplitIdle /\ InitStepIdle
    /\ InitChartIdle /\ InitProjectIdle /\ InitLinesIdle /\ InitFrameIdle /\ InitGridIdle
    /\ InitOverlapIdle
    /\ InitSamplerIdle
    /\ InitObjectsIdle
    /\ InitLayoutFromIdle
    /\ InitDedupIdle
    /\ InitEdgeIdle
    /\ InitTicksIdle
    /\ InitStarsIdle
    /\ InitConstellationsIdle

SpecLabels == InitLabels /\ [][NextLabels]_vars

InitFrame == InitFrameCall /\ InitContextGraticule /\ InitSplitIdle /\ InitStepIdle
    /\ InitChartIdle /\ InitProjectIdle /\ InitLabelsIdle /\ InitGridIdle
    /\ InitOverlapIdle
    /\ InitSamplerIdle
    /\ InitObjectsIdle
    /\ InitLayoutFromIdle
    /\ InitDedupIdle
    /\ InitEdgeIdle
    /\ InitTicksIdle
    /\ InitStarsIdle
    /\ InitConstellationsIdle

SpecFrame == InitFrame /\ [][NextFrame]_vars

InitGrid == InitGridCall /\ InitContextGraticule /\ InitSplitIdle /\ InitStepIdle
    /\ InitChartIdle /\ InitProjectIdle /\ InitLabelsIdle /\ InitFrameIdle
    /\ InitOverlapIdle
    /\ InitSamplerIdle
    /\ InitObjectsIdle
    /\ InitLayoutFromIdle
    /\ InitDedupIdle
    /\ InitEdgeIdle
    /\ InitTicksIdle
    /\ InitStarsIdle
    /\ InitConstellationsIdle

SpecGrid == InitGrid /\ [][NextGrid]_vars

InitOverlap == InitOverlapCall /\ InitSplitIdle /\ InitStepIdle /\ InitChartIdle
    /\ InitProjectIdle /\ InitContextIdle /\ InitLabelsIdle /\ InitLinesIdle
    /\ InitFrameIdle /\ InitGridIdle
    /\ InitSamplerIdle
    /\ InitObjectsIdle
    /\ InitLayoutFromIdle
    /\ InitDedupIdle
    /\ InitEdgeIdle
    /\ InitTicksIdle
    /\ InitStarsIdle
    /\ InitConstellationsIdle

SpecOverlap == InitOverlap /\ [][BoxesOverlap]_vars

InitProjectShift == InitProjectShiftCall /\ InitSplitIdle /\ InitStepIdle /\ InitChartIdle
    /\ InitContextIdle /\ InitLabelsIdle /\ InitLinesIdle /\ InitFrameIdle /\ InitGridIdle
    /\ InitOverlapIdle
    /\ InitSamplerIdle
    /\ InitObjectsIdle
    /\ InitLayoutFromIdle
    /\ InitDedupIdle
    /\ InitEdgeIdle
    /\ InitTicksIdle
    /\ InitStarsIdle
    /\ InitConstellationsIdle

SpecProjectShift == InitProjectShift /\ [][Project]_vars

InitSampler == InitSamplerCall /\ InitContextSampler /\ InitSplitIdle /\ InitStepIdle
    /\ InitChartIdle /\ InitProjectIdle /\ InitLabelsIdle /\ InitLinesIdle
    /\ InitFrameIdle /\ InitGridIdle /\ InitOverlapIdle
    /\ InitObjectsIdle
    /\ InitLayoutFromIdle
    /\ InitDedupIdle
    /\ InitEdgeIdle
    /\ InitTicksIdle
    /\ InitStarsIdle
    /\ InitConstellationsIdle

SpecSampler == InitSampler /\ [][NextSampler]_vars

InitObjects == InitObjectsCall /\ InitContextIdle /\ InitSplitIdle /\ InitStepIdle
    /\ InitChartIdle /\ InitProjectIdle /\ InitLabelsIdle /\ InitLinesIdle
    /\ InitFrameIdle /\ InitGridIdle /\ InitOverlapIdle /\ InitSamplerIdle
    /\ InitLayoutFromIdle
    /\ InitDedupIdle
    /\ InitEdgeIdle
    /\ InitTicksIdle
    /\ InitStarsIdle
    /\ InitConstellationsIdle

SpecObjects == InitObjects /\ [][NextObjects]_vars

InitLayoutFrom == InitLayoutFromCall /\ InitContextIdle /\ InitSplitIdle /\ InitStepIdle
    /\ InitChartIdle /\ InitProjectIdle /\ InitLabelsIdle /\ InitLinesIdle
    /\ InitFrameIdle /\ InitGridIdle /\ InitOverlapIdle /\ InitSamplerIdle
    /\ InitObjectsIdle
    /\ InitDedupIdle
    /\ InitEdgeIdle
    /\ InitTicksIdle
    /\ InitStarsIdle
    /\ InitConstellationsIdle

SpecLayoutFrom == InitLayoutFrom /\ [][NextLayoutFrom]_vars

InitDedup == InitDedupCall /\ InitContextIdle /\ InitSplitIdle /\ InitStepIdle
    /\ InitChartIdle /\ InitProjectIdle /\ InitLabelsIdle /\ InitLinesIdle
    /\ InitFrameIdle /\ InitGridIdle /\ InitOverlapIdle /\ InitSamplerIdle
    /\ InitObjectsIdle /\ InitLayoutFromIdle
    /\ InitEdgeIdle
    /\ InitTicksIdle
    /\ InitStarsIdle
    /\ InitConstellationsIdle

SpecDedup == InitDedup /\ [][DedupMarks]_vars

InitEdge == InitEdgeCall /\ InitContextIdle /\ InitSplitIdle /\ InitStepIdle
    /\ InitChartIdle /\ InitProjectIdle /\ InitLabelsIdle /\ InitLinesIdle
    /\ InitFrameIdle /\ InitGridIdle /\ InitOverlapIdle /\ InitSamplerIdle
    /\ InitObjectsIdle /\ InitLayoutFromIdle /\ InitDedupIdle
    /\ InitTicksIdle
    /\ InitStarsIdle
    /\ InitConstellationsIdle

SpecEdge == InitEdge /\ [][EdgeHits]_vars

InitTicks == InitTicksCall /\ InitContextIdle /\ InitSplitIdle /\ InitStepIdle
    /\ InitChartIdle /\ InitProjectIdle /\ InitLabelsIdle /\ InitLinesIdle
    /\ InitFrameIdle /\ InitGridIdle /\ InitOverlapIdle /\ InitSamplerIdle
    /\ InitObjectsIdle /\ InitLayoutFromIdle /\ InitDedupIdle /\ InitEdgeIdle
    /\ InitStarsIdle
    /\ InitConstellationsIdle

SpecTicks == InitTicks /\ [][NextTicks]_vars

InitStars == InitStarsCall /\ InitContextStars /\ InitSplitIdle /\ InitStepIdle
    /\ InitChartIdle /\ InitProjectIdle /\ InitLabelsIdle /\ InitLinesIdle
    /\ InitFrameIdle /\ InitGridIdle /\ InitOverlapIdle /\ InitSamplerIdle
    /\ InitObjectsIdle /\ InitLayoutFromIdle /\ InitDedupIdle /\ InitEdgeIdle
    /\ InitTicksIdle
    /\ InitConstellationsIdle

SpecStars == InitStars /\ [][NextStars]_vars

InitConstellations == InitConstellationsCall /\ InitContextIdle /\ InitSplitIdle /\ InitStepIdle
    /\ InitChartIdle /\ InitProjectIdle /\ InitLabelsIdle /\ InitLinesIdle
    /\ InitFrameIdle /\ InitGridIdle /\ InitOverlapIdle /\ InitSamplerIdle
    /\ InitObjectsIdle /\ InitLayoutFromIdle /\ InitDedupIdle /\ InitEdgeIdle
    /\ InitTicksIdle
    /\ InitStarsIdle

SpecConstellations == InitConstellations /\ [][NextConstellations]_vars

----------------------------------------------------------------------------
(* Claims *)

\* The number of consecutive pairs of pts that Jump separates.
JumpCount(pts, th) ==
    Cardinality({i \in 2..Len(pts) :
        Abs(pts[i].x - pts[i - 1].x) > th \/ Abs(pts[i].y - pts[i - 1].y) > th})

\* C4: split_segments returns a partition of the input into maximal contiguous
\* runs: the segments concatenate to the input, none is empty, inside a segment
\* every consecutive pair is within the threshold in x and in y, and between
\* the last point of a segment and the first of the next the x or the y delta
\* exceeds it; empty input gives no segment, one point gives one one-element
\* segment.
C4_SplitIsMaximalPartition ==
    split_pc = "done" =>
        /\ Flatten(segs) = points
        /\ \A k \in 1..Len(segs) : segs[k] # <<>>
        /\ \A k \in 1..Len(segs) : \A i \in 2..Len(segs[k]) :
              /\ Abs(segs[k][i].x - segs[k][i - 1].x) <= threshold
              /\ Abs(segs[k][i].y - segs[k][i - 1].y) <= threshold
        /\ \A k \in 1..(Len(segs) - 1) :
              LET a == segs[k][Len(segs[k])]
                  b == segs[k + 1][1]
              IN  Abs(b.x - a.x) > threshold \/ Abs(b.y - a.y) > threshold
        /\ (points = <<>> => segs = <<>>)
        /\ (Len(points) = 1 => segs = <<points>>)

\* A run of two points within the threshold followed by a jump in y only.
C4_Witness ==
    /\ split_pc = "done"
    /\ Len(points) = 4
    /\ Len(segs) = 2
    /\ Len(segs[1]) = 2
    /\ segs[1][2].x = segs[2][1].x
    /\ Abs(segs[2][1].y - segs[1][2].y) > threshold

\* C5: for a non-empty input the number of segments is 1 plus the number of
\* consecutive pairs whose x or y delta exceeds the threshold; with no such
\* pair the one segment is the input, with exactly one such pair the two
\* segments are the input cut between the two points of that pair.
C5_SegmentCount ==
    (split_pc = "done" /\ points # <<>>) =>
        /\ Len(segs) = 1 + JumpCount(points, threshold)
        /\ (JumpCount(points, threshold) = 0 => segs = <<points>>)
        /\ \A i \in 2..Len(points) :
              (/\ JumpCount(points, threshold) = 1
               /\ \/ Abs(points[i].x - points[i - 1].x) > threshold
                  \/ Abs(points[i].y - points[i - 1].y) > threshold)
              => segs = <<SubSeq(points, 1, i - 1), SubSeq(points, i, Len(points))>>

\* The shape of the repository's test: three near points, one jump, one more.
C5_Witness ==
    /\ split_pc = "done"
    /\ Len(points) = 4
    /\ JumpCount(points, threshold) = 1
    /\ Len(segs) = 2
    /\ Len(segs[1]) = 3
    /\ Len(segs[2]) = 1

\* C6: adaptive_step_deg returns an integer in [1,4] for every field of view
\* and never decreases as the field of view grows, the bucket boundaries at 30
\* and 60 degrees included.
C6_StepInRangeAndMonotone ==
    step_pc = "done" =>
        /\ steps[1] \in 1..4
        /\ steps[2] \in 1..4
        /\ steps[1] <= steps[2]

\* Two fields of view on either side of a bucket boundary, and a pair whose
\* steps differ.
C6_Witness ==
    /\ step_pc = "done"
    /\ \/ fovs = <<60, 61>>
       \/ fovs = <<30, 31>>
       \/ (fovs = <<179, 180>> /\ steps = <<1, 2>>)

\* The order the spec fixes, back to front, and the layer drawn on top.
SpecifiedClippedOrder ==
    <<"EclipticLayer", "GridLayer", "ConstellationsLayer", "ObjectsLayer",
      "StarsLayer", "LabelsLayer", "ZenithLayer">>

IsPrefix(a, b) == Len(a) <= Len(b) /\ a = SubSeq(b, 1, Len(a))

\* C7: draw_document renders Ecliptic, Grid, Constellations, Objects, Stars,
\* Labels, Zenith in this order, each exactly once and all into the single
\* clipped group; Frame is rendered exactly once, after the clipped group has
\* been added to the document, and outside the clipped group.
C7_LayerOrder ==
    LET called == [i \in 1..Len(render_log) |-> render_log[i].layer]
        clips == {i \in 1..Len(doc) : "clip_path" \in DOMAIN doc[i]}
    IN  /\ IsPrefix(called, SpecifiedClippedOrder \o <<"FrameLayer">>)
        /\ \A i \in 1..Len(render_log) :
              IF render_log[i].layer = "FrameLayer"
              THEN /\ render_log[i].into = "doc"
                   /\ \E j \in 1..render_log[i].doc_len : j \in clips
              ELSE render_log[i].into = "clipped"
        /\ Cardinality(clips) <= 1
        /\ chart_pc = "done" =>
              /\ called = SpecifiedClippedOrder \o <<"FrameLayer">>
              /\ \E c \in clips :
                    /\ [k \in 1..Len(doc[c].children) |-> doc[c].children[k].class]
                         = [k \in 1..7 |-> LayerClass(SpecifiedClippedOrder[k])]
                    /\ \E f \in (c + 1)..Len(doc) :
                          /\ "class" \in DOMAIN doc[f]
                          /\ doc[f].class = "frame"
                    /\ \A f \in 1..Len(doc) :
                          ("class" \in DOMAIN doc[f] /\ doc[f].class = "frame") => f > c

C7_Witness ==
    /\ chart_pc = "done"
    /\ Len(render_log) = 8
    /\ render_log[8].layer = "FrameLayer"
    /\ css # ""
    /\ Len(doc) = 4

\* C2: project returns no point whenever the angular separation of the point
\* and the center is greater than 90 degrees and the projection is Gnomonic,
\* Spherical or AltAz; under Stereographic it returns a point for every input.
C2_BacksideCulled ==
    project_pc = "done" =>
        \A i \in 1..2 :
            /\ (/\ Zenith(calls[i].coords, calls[i].center) > 90
                /\ calls[i].projection \in {"Gnomonic", "Spherical", "AltAz"})
               => ~results[i].some
            /\ calls[i].projection = "Stereographic" => results[i].some

\* The repository's test: 120 degrees along the equator is dropped by Gnomonic
\* and kept by Stereographic at (-tan 60, 0); and a Stereographic point at the
\* antipode.
C2_Witness ==
    /\ project_pc = "done"
    /\ calls[1].center = EQPoint(0, 0)
    /\ calls[1].position_angle_deg = 0
    /\ \/ /\ calls[1].coords = EQPoint(120, 0)
          /\ calls[1].projection = "Gnomonic"
          /\ ~results[1].some
       \/ /\ calls[1].coords = EQPoint(120, 0)
          /\ calls[1].projection = "Stereographic"
          /\ results[1] = Some(Point(-17321, 0))
       \/ /\ calls[1].coords = EQPoint(180, 0)
          /\ calls[1].projection = "Stereographic"
          /\ results[1].some

\* C3 as stated: if project with position angle 0 returns (x, y), project with
\* position angle 90 returns (-y, x).
C3_Rotate90AsStated ==
    (/\ project_pc = "done"
     /\ calls[1].position_angle_deg = 0
     /\ results[1].some)
    => /\ results[2].some
       /\ results[2].x = -results[1].y
       /\ results[2].y = results[1].x

\* C3 as amended: if project with position angle 0 returns (x, y), project
\* with position angle 90 returns (y, -x).
C3_Rotate90 ==
    (/\ project_pc = "done"
     /\ calls[1].position_angle_deg = 0
     /\ results[1].some)
    => /\ results[2].some
       /\ results[2].x = results[1].y
       /\ results[2].y = -results[1].x

\* The repository's test: one degree east of the center is (-tan 1, 0) at
\* position angle 0 and (0, tan 1) at position angle 90; and a point off both
\* axes.
C3_Witness ==
    /\ project_pc = "done"
    /\ calls[1].position_angle_deg = 0
    /\ \/ /\ calls[1].center = EQPoint(0, 0)
          /\ calls[1].coords = EQPoint(1, 0)
          /\ calls[1].projection = "Gnomonic"
          /\ results[1] = Some(Point(-175, 0))
          /\ results[2] = Some(Point(0, 175))
       \/ /\ results[1].some
          /\ results[1].x # 0
          /\ results[1].y # 0
          /\ results[1].x # results[1].y

\* Two boxes share interior points.
Intersect(a, b) ==
    /\ a.x < b.x + b.w /\ b.x < a.x + a.w
    /\ a.y < b.y + b.h /\ b.y < a.y + a.h

SeedCount == Len(seed_symbol_boxes(data, cfg, layout, quarter_above))

\* Every accepted label box shares no interior point with any box that was in
\* the occupied list when it was accepted.
NoAcceptedOverlap ==
    labels_pc \in {"place", "done"} =>
        \A j \in (SeedCount + 1)..Len(placed) : \A i \in 1..(j - 1) :
            ~Intersect(placed[i], placed[j])

\* C1 as stated: accepted label boxes overlap no occupied box, and of two
\* candidates whose first-offset boxes would overlap, the dimmer one is placed
\* at a later offset or gets no label.
C1_DimmerNeverFirst ==
    /\ NoAcceptedOverlap
    /\ \A j \in 1..Len(chosen) : \A i \in 1..(j - 1) :
           Intersect(OffsetBox(cands[i], 1), OffsetBox(cands[j], 1))
               => chosen[j] # 1

\* C1: accepted label boxes overlap no occupied box, and of two candidates
\* whose first-offset boxes would overlap, when the brighter one was placed at
\* its first offset the dimmer one is placed at a later offset or gets no
\* label.
C1_NoLabelOverlap ==
    /\ NoAcceptedOverlap
    /\ \A j \in 1..Len(chosen) : \A i \in 1..(j - 1) :
           /\ Intersect(OffsetBox(cands[i], 1), OffsetBox(cands[j], 1))
           /\ chosen[i] = 1
           => chosen[j] # 1

\* Two candidates' first-offset boxes overlap, the brighter one took its first
\* offset and the dimmer one was placed at a later offset.
C1_Witness ==
    /\ labels_pc = "done"
    /\ \E j \in 1..Len(chosen) : \E i \in 1..(j - 1) :
           /\ Intersect(OffsetBox(cands[i], 1), OffsetBox(cands[j], 1))
           /\ chosen[i] = 1
           /\ chosen[j] > 1

\* C8: rendering has no fatal condition.  For every configured step (0
\* included) no layer's render panics, and no loop runs more iterations than
\* its range has values (the Dec loops range over the declinations -80..90).
C8_NoFatalCondition ==
    /\ frame_pc # "panic"
    /\ grid_iters <= Cardinality(-80..90)

\* The RA tick lines the Frame layer has drawn: vertical lines that start on
\* the top or the bottom side.
IsRaTickLine(e) ==
    /\ e.el = "line"
    /\ e.x1 = e.x2
    /\ e.y1 \in {FrameTop, FrameBottom}

TickSide(e) == IF e.y1 = FrameTop /\ e.y2 < e.y1 THEN "Top" ELSE "Bottom"

TickLength(e) == Abs(e.y2 - e.y1)

\* An hour label drawn for the tick line e.
HasHourLabel(e) ==
    \E k \in 1..Len(frame_out) :
        /\ frame_out[k].el = "text"
        /\ frame_out[k].class = "tick-label"
        /\ frame_out[k].x = e.x1
        /\ frame_out[k].y = IF TickSide(e) = "Top" THEN FrameTop - 1000
                            ELSE FrameBottom + 2000

\* The RA of tick i, 3.75 * i degrees, is a multiple of step degrees.
RaIsMultiple(i, step) == \E k \in 0..(15 * i) : 15 * i = k * 4 * step

\* The RA ticks whose meridian crosses the side of the tick line e at its x.
TicksAt(e) ==
    {ln \in lines :
        /\ ln.kind = "ra"
        /\ ln.value < RaTickCount
        /\ \E k \in 1..Len(LineHits("ra", ln.value, {"Top", "Bottom"})) :
               LET m == LineHits("ra", ln.value, {"Top", "Bottom"})[k]
               IN  m.x = e.x1 /\ m.side = TickSide(e)}

\* C9: for a configured step_ra_deg of at least 1, every RA tick drawn on the
\* Top or the Bottom side is 6 px long with an hour label when its RA is a
\* multiple of step_ra_deg, and 3 px long with no label otherwise.
C9_RaTickLengths ==
    cfg.step_ra_deg >= 1 =>
        \A k \in 1..Len(frame_out) :
            IsRaTickLine(frame_out[k]) =>
                \A ln \in TicksAt(frame_out[k]) :
                    IF RaIsMultiple(ln.value, cfg.step_ra_deg)
                    THEN TickLength(frame_out[k]) = 600 /\ HasHourLabel(frame_out[k])
                    ELSE TickLength(frame_out[k]) = 300 /\ ~HasHourLabel(frame_out[k])

\* The key of a mark: side, x and y rounded to a tenth of a pixel, label.
KeyOf(m) == <<m.side, RoundDiv(m.x, 10), RoundDiv(m.y, 10), m.label>>

\* The indices of the marks that are the first of the input with their key.
FirstOfKey(marks) ==
    {i \in 1..Len(marks) : \A j \in 1..(i - 1) : KeyOf(marks[j]) # KeyOf(marks[i])}

\* out is the subsequence of marks at the indices idx, in input order.
IsSubsequenceAt(out, marks, idx) ==
    /\ Len(out) = Cardinality(idx)
    /\ \A i \in idx :
           out[Cardinality({j \in idx : j <= i})] = marks[i]

DedupContract(marks) ==
    LET out == dedup_marks(marks)
    IN  /\ IsSubsequenceAt(out, marks, FirstOfKey(marks))
        /\ \A a, b \in 1..Len(out) : a # b => KeyOf(out[a]) # KeyOf(out[b])
        /\ \A i \in 1..Len(marks) : \E a \in 1..Len(out) : KeyOf(out[a]) = KeyOf(marks[i])
        /\ dedup_marks(out) = out

\* The number of drawn primitives that satisfy P.
DrawnCount(P(_)) == Cardinality({k \in 1..Len(frame_out) : P(frame_out[k])})

\* Every crossing of a major RA tick is drawn as one tick line and one label.
MajorDrawnOnce ==
    \A ln \in lines :
        ln.kind = "ra" /\ ln.value < RaTickCount /\ is_major(ln.value, cfg.step_ra_deg) =>
            LET hits == LineHits("ra", ln.value, {"Top", "Bottom"})
            IN  \A h \in 1..Len(hits) :
                    LET sideY == IF hits[h].side = "Top" THEN FrameTop ELSE FrameBottom
                        labelY == IF hits[h].side = "Top" THEN FrameTop - 1000
                                  ELSE FrameBottom + 2000
                        IsTick(e) == e.el = "line" /\ e.x1 = hits[h].x /\ e.x2 = e.x1
                                     /\ e.y1 = sideY
                        IsLabel(e) == e.el = "text" /\ e.class = "tick-label" /\ e.x = hits[h].x
                                      /\ e.y = labelY /\ e.content = RaLabel(ln.value)
                    IN  DrawnCount(IsTick) = 1 /\ DrawnCount(IsLabel) = 1

\* C10: dedup_marks returns the subsequence of the first mark per key (side,
\* round(10 x), round(10 y), label) in input order, with no key twice and every
\* input key kept, and is idempotent; a major crossing of the Frame layer,
\* pushed twice with the same label, is drawn as one tick and one label.
C10_DedupFirstPerKey ==
    /\ DedupContract(ra_marks)
    /\ DedupContract(dec_marks)
    /\ frame_pc \in {"dec_loop", "done"} => MajorDrawnOnce

\* The RA marks hold a major crossing twice and marks that differ only within
\* a tenth of a pixel, and the ticks have been drawn.
C10_Witness ==
    /\ frame_pc = "done"
    /\ \E i, j \in 1..Len(ra_marks) :
           i < j /\ ra_marks[i] = ra_marks[j] /\ ra_marks[i].label # ""
    /\ \E i, j \in 1..Len(ra_marks) :
           /\ i < j /\ ra_marks[i] # ra_marks[j]
           /\ KeyOf(ra_marks[i]) = KeyOf(ra_marks[j])
    /\ Len(dedup_marks(ra_marks)) < Len(ra_marks)

\* The six offsets in their specified order, in hundredths of a pixel.
SpecifiedOffsets ==
    <<<<0, -1000>>, <<0, 1000>>, <<0, -1600>>, <<0, 1600>>, <<0, -2000>>, <<0, 2000>>>>

\* The text box of candidate c at the k-th specified offset.
SpecifiedBox(c, k) ==
    label_box_centered(c.p.x + SpecifiedOffsets[k][1], c.p.y + SpecifiedOffsets[k][2],
                       c.text)

\* Box b lies entirely inside the plot rectangle.
InsidePlot(b) ==
    /\ layout.plot_x <= b.x
    /\ b.x + b.w <= layout.plot_x + layout.plot_w
    /\ layout.plot_y <= b.y
    /\ b.y + b.h <= layout.plot_y + layout.plot_h

\* The k-th specified offset of c is valid against the occupied list occ.
ValidAt(c, k, occ) ==
    /\ InsidePlot(SpecifiedBox(c, k))
    /\ \A i \in 1..Len(occ) : ~Intersect(SpecifiedBox(c, k), occ[i])

\* C11: each step that processes a candidate either places its label at the
\* first of the six offsets, in the fixed order, whose box is inside the plot
\* and overlaps no occupied box (appending that box and emitting one label at
\* that offset), or, when no offset is valid, emits nothing and leaves the
\* occupied list unchanged; in both cases it moves on to the next candidate.
C11_FirstValidOffset ==
    [][(labels_pc = "place" /\ cand_i' # cand_i) =>
          LET c == cands[cand_i]
          IN  /\ cand_i' = cand_i + 1
              /\ \/ \E k \in 1..6 :
                       /\ ValidAt(c, k, placed)
                       /\ \A j \in 1..(k - 1) : ~ValidAt(c, j, placed)
                       /\ placed' = Append(placed, SpecifiedBox(c, k))
                       /\ Len(label_out') = Len(label_out) + 1
                       /\ SubSeq(label_out', 1, Len(label_out)) = label_out
                       /\ label_out'[Len(label_out')].x = c.p.x + SpecifiedOffsets[k][1]
                       /\ label_out'[Len(label_out')].y = c.p.y + SpecifiedOffsets[k][2]
                       /\ label_out'[Len(label_out')].content = c.text
                 \/ /\ \A k \in 1..6 : ~ValidAt(c, k, placed)
                    /\ placed' = placed
                    /\ label_out' = label_out]_vars

\* A candidate was skipped because none of its offsets was valid, and a later
\* candidate was then placed at an offset other than the first.
C11_Witness ==
    /\ labels_pc = "done"
    /\ \E i, j \in 1..Len(chosen) : i < j /\ chosen[i] = 0 /\ chosen[j] > 1

\* The label candidates in encounter order: stars before objects, each
\* dataset in storage order.
EncounterOrder ==
    StarCands(data.stars, 1, cfg, layout, quarter_above)
        \o ObjectCands(data.objects, 1, cfg, layout, quarter_above)

\* s is t reordered by ascending magnitude, equal magnitudes keeping the
\* order they have in t.
IsStableSortOf(s, t) ==
    /\ Len(s) = Len(t)
    /\ \E pi \in Permutations(1..Len(t)) :
           /\ \A i \in 1..Len(s) : s[i] = t[pi[i]]
           /\ \A i, j \in 1..Len(s) :
                  i < j => \/ s[i].magnitude < s[j].magnitude
                           \/ s[i].magnitude = s[j].magnitude /\ pi[i] < pi[j]

\* The indices of the candidates processed so far that received a label.
Labelled == {j \in 1..Len(chosen) : chosen[j] # 0}

\* C12: the candidates are processed in ascending magnitude order, equal
\* magnitudes in encounter order (stars before objects, storage order within
\* a dataset), and labels are placed in that order.
C12_BrightestFirstStable ==
    labels_pc \in {"place", "done"} =>
        /\ IsStableSortOf(cands, EncounterOrder)
        /\ Len(chosen) = cand_i - 1
        /\ Len(label_out) = Cardinality(Labelled)
        /\ \A j \in Labelled :
               label_out[Cardinality({i \in Labelled : i <= j})].content = cands[j].text

\* A star and an object of equal magnitude were both candidates, the
\* encounter order was not sorted already, and every candidate was processed.
C12_Witness ==
    /\ labels_pc = "done"
    /\ \E i, j \in 1..Len(cands) :
           /\ i < j
           /\ cands[i].magnitude = cands[j].magnitude
           /\ cands[i].is_star /\ ~cands[j].is_star
    /\ \E i, j \in 1..Len(EncounterOrder) :
           i < j /\ EncounterOrder[i].magnitude > EncounterOrder[j].magnitude

\* The text box of an emitted label, from its anchor, baseline and content.
EmittedBox(e) == label_box_centered(e.x, e.y, e.content)

\* C13: every emitted label has its text box entirely inside the plot
\* rectangle, and a candidate whose six offset boxes all leave the plot
\* rectangle receives no label.
C13_LabelsInsidePlot ==
    /\ \A m \in 1..Len(label_out) : InsidePlot(EmittedBox(label_out[m]))
    /\ \A j \in Labelled : InsidePlot(SpecifiedBox(cands[j], chosen[j]))
    /\ \A j \in 1..Len(chosen) :
           (\A k \in 1..6 : ~InsidePlot(SpecifiedBox(cands[j], k))) => chosen[j] = 0

\* A candidate projected outside the plot and a candidate on the plot's edge
\* were processed without a label, and another candidate was labelled.
C13_Witness ==
    /\ labels_pc = "done"
    /\ label_out # <<>>
    /\ \E j \in 1..Len(chosen) :
           /\ cands[j].p.x < layout.plot_x
           /\ chosen[j] = 0
    /\ \E j \in 1..Len(chosen) :
           /\ cands[j].p.x >= layout.plot_x
           /\ \A k \in 1..6 : ~InsidePlot(SpecifiedBox(cands[j], k))
           /\ chosen[j] = 0

\* The stars and objects that get a symbol box: at or under the magnitude
\* limit of their dataset and not culled by project.
SeededStars ==
    {i \in 1..Len(data.stars) :
        /\ data.stars[i].magnitude <= cfg.limit_star_mag
        /\ ProjectToPixels(data.stars[i].coords, cfg, layout, quarter_above).some}
SeededObjects ==
    {i \in 1..Len(data.objects) :
        /\ data.objects[i].magnitude <= cfg.limit_object_mag
        /\ ProjectToPixels(data.objects[i].coords, cfg, layout, quarter_above).some}

\* seed holds one symbol box per seeded star, then one per seeded object.
IsSeedList(seed) ==
    /\ Len(seed) = Cardinality(SeededStars) + Cardinality(SeededObjects)
    /\ \A i \in SeededStars :
           seed[Cardinality({j \in SeededStars : j <= i})] =
               star_symbol_box(ProjectToPixels(data.stars[i].coords, cfg, layout,
                                               quarter_above),
                               data.stars[i].magnitude)
    /\ \A i \in SeededObjects :
           seed[Cardinality(SeededStars) + Cardinality({j \in SeededObjects : j <= i})] =
               object_symbol_box(data.objects[i].kind, data.objects[i].magnitude,
                                 ProjectToPixels(data.objects[i].coords, cfg, layout,
                                                 quarter_above))

\* A step after seeding keeps the occupied list as a prefix and appends one
\* box exactly when it emits one label.
OccupiedGrows ==
    labels_pc \in {"build", "place", "done"} =>
        /\ IsPrefix(placed, placed')
        /\ Len(placed') - Len(placed) = Len(label_out') - Len(label_out)
        /\ Len(placed') - Len(placed) \in {0, 1}

\* C14: the occupied list starts as the seed list, one symbol box for every
\* star and object at or under its magnitude limit that project does not
\* cull, candidate or not; afterwards it only grows, by exactly one box per
\* accepted label, and no box is removed, reordered or modified.
C14_OccupiedOnlyGrows ==
    /\ [](labels_pc = "build" => IsSeedList(placed))
    /\ [][OccupiedGrows]_vars

\* The seed list held the box of a star that is no label candidate, a label
\* candidate beyond the object limit had no box in it, and a label was
\* accepted.
C14_Witness ==
    /\ labels_pc = "done"
    /\ \E i \in SeededStars :
           ~should_label(data.stars[i].kind, data.stars[i].magnitude)
    /\ \E i \in 1..Len(data.objects) :
           data.objects[i].catalog = "M" /\ i \notin SeededObjects
    /\ Len(placed) > Cardinality(SeededStars) + Cardinality(SeededObjects)

\* Some point lies strictly inside both rectangles.  The corners are
\* integers, so a common interior point exists exactly when one exists with
\* half-integer coordinates; p and q are twice its coordinates.
InteriorsMeet(a, b) ==
    \E p \in 0..(2 * (MaxBoxCoord + MaxBoxSide)), q \in 0..(2 * (MaxBoxCoord + MaxBoxSide)) :
        /\ 2 * a.x < p /\ p < 2 * (a.x + a.w) /\ 2 * b.x < p /\ p < 2 * (b.x + b.w)
        /\ 2 * a.y < q /\ q < 2 * (a.y + a.h) /\ 2 * b.y < q /\ q < 2 * (b.y + b.h)

\* C15: for rectangles of positive width and height boxes_overlap(a, b) is
\* true exactly when their open interiors intersect, so rectangles sharing
\* only an edge or a corner do not overlap, and boxes_overlap(a, b) equals
\* boxes_overlap(b, a).
C15_OpenInteriorOverlap ==
    overlap_pc = "done" =>
        /\ overlap_out[1] = InteriorsMeet(overlap_boxes[1], overlap_boxes[2])
        /\ overlap_out[1] = overlap_out[2]

\* Two rectangles that share a stretch of an edge and nothing more were
\* compared.
C15_Witness ==
    /\ overlap_pc = "done"
    /\ overlap_boxes[1].x + overlap_boxes[1].w = overlap_boxes[2].x
    /\ overlap_boxes[1].y < overlap_boxes[2].y + overlap_boxes[2].h
    /\ overlap_boxes[2].y < overlap_boxes[1].y + overlap_boxes[1].h
    /\ overlap_out = <<FALSE, FALSE>>

\* C16: project depends on the two right ascensions only through their
\* difference modulo 360 degrees: a call and the same call with one offset
\* added to both right ascensions, or with whole turns added to either, return
\* the same result.
C16_RaShiftInvariant ==
    project_pc = "done" => results[1] = results[2]

\* C17: when the point is exactly 90 degrees from the center, project under
\* the Gnomonic projection returns no point; it never returns a point whose
\* radial value is tan of a quarter turn.
C17_QuarterTurnNoPoint ==
    project_pc = "done" =>
        \A i \in 1..2 :
            (/\ calls[i].projection = "Gnomonic"
             /\ Zenith(calls[i].coords, calls[i].center) = 90)
            => ~results[i].some

\* The samples a call is to visit: start + k * step for k = 0, 1, ... while
\* within the range.  A step of 65536 or more leaves the range at k = 1.
SpecifiedSamples(call, c) ==
    LET u == StepOf(call.step_opt, c)
        last == IF call.kind = "sample_ra_meridian" THEN 90 ELSE 359
        start == LoopStart(call.kind)
        n == IF u.hi > 0 THEN 1 ELSE ((last - start) \div u.lo) + 1
    IN  [k \in 1..n |-> start + (k - 1) * u.lo]

RECURSIVE SpecifiedPixels(_, _, _, _, _)
SpecifiedPixels(samples, call, c, l, above) ==
    IF samples = <<>> THEN <<>>
    ELSE PushSample(SpecifiedPixels(SubSeq(samples, 1, Len(samples) - 1), call, c, l, above),
                    call, samples[Len(samples)], c, l, above)

\* C18: for every step >= 1 sample_ra_meridian visits Dec = -90 + k * step
\* while Dec <= 90 and sample_dec_parallel visits RA = k * step while RA < 360,
\* and each returns, in visiting order, one pixel point per visited sample that
\* project does not cull; a Stereographic meridian has floor(180 / step) + 1
\* points.
C18_SamplersVisitRange ==
    LET want == SpecifiedSamples(samp_call, cfg)
    IN  /\ samp_pc # "panic"
        /\ samp_pc = "loop" => IsPrefix(samp_visited, want)
        /\ samp_pc = "done" =>
               /\ samp_visited = want
               /\ samp_out = SpecifiedPixels(want, samp_call, cfg, layout, quarter_above)
               /\ (samp_call.kind = "sample_ra_meridian" /\ cfg.projection = "Stereographic")
                  => Len(samp_out) = Len(want)

\* The objects of the vector that are drawn, in the vector's order.
DrawnIds(objects) ==
    LET keep(o) == /\ o.magnitude <= cfg.limit_object_mag
                   /\ ProjectToPixels(o.coords, cfg, layout, quarter_above).some
    IN  [i \in 1..Len(SelectSeq(objects, keep)) |-> SelectSeq(objects, keep)[i].identifier]

\* C19: parse_objects_from_reader returns the objects in non-increasing
\* magnitude order, ObjectsLayer::render emits one glyph per drawn object in
\* storage order, and so of two drawn objects of different magnitude the
\* brighter one is emitted later.
C19_FaintestFirst ==
    /\ obj_pc \in {"render", "done"} =>
           \A i, j \in 1..Len(data.objects) :
               i < j => data.objects[i].magnitude >= data.objects[j].magnitude
    /\ obj_pc = "done" =>
           /\ [i \in 1..Len(obj_out) |-> obj_out[i].id] = DrawnIds(data.objects)
           /\ \A i, j \in 1..Len(obj_out) :
                  obj_out[i].magnitude < obj_out[j].magnitude => j < i

\* Three rows given brightest first are drawn faintest first.
C19_Witness ==
    /\ obj_pc = "done"
    /\ Len(obj_rows) = 3
    /\ RowMagnitude(obj_rows[1]) < RowMagnitude(obj_rows[2])
    /\ RowMagnitude(obj_rows[2]) < RowMagnitude(obj_rows[3])
    /\ Len(obj_out) = 3
    /\ obj_out[1].id = obj_rows[3].identifier
    /\ obj_out[3].id = obj_rows[1].identifier

\* C20: for every width, height and margins ChartLayout::from returns, and
\* the plot rectangle it returns is the canvas minus the margins: plot_x = left,
\* plot_y = top, plot_w + left + right = width and plot_h + top + bottom =
\* height (so that plot_w <= width and plot_h <= height), and the center is
\* (plot_x + plot_w / 2, plot_y + plot_h / 2).
C20_PlotIsCanvasMinusMargins ==
    /\ lay_pc # "panic"
    /\ lay_pc = "done" =>
           /\ lay_out.plot_x = lay_cfg.margin.left
           /\ lay_out.plot_y = lay_cfg.margin.top
           /\ F64Sum(F64Sum(lay_out.plot_w, lay_cfg.margin.left), lay_cfg.margin.right)
                  = lay_cfg.width
           /\ F64Sum(F64Sum(lay_out.plot_h, lay_cfg.margin.top), lay_cfg.margin.bottom)
                  = lay_cfg.height
           /\ ~F64Less(lay_cfg.width, lay_out.plot_w)
           /\ ~F64Less(lay_cfg.height, lay_out.plot_h)
           /\ lay_out.center_px.x = F64Sum(F64Sum(lay_out.plot_x, lay_out.plot_x), lay_out.plot_w)
           /\ lay_out.center_px.y = F64Sum(F64Sum(lay_out.plot_y, lay_out.plot_y), lay_out.plot_h)

SideLine(side) ==
    CASE side = "Top" -> EdgeRect.top [] side = "Bottom" -> EdgeRect.bottom
      [] side = "Left" -> EdgeRect.left [] OTHER -> EdgeRect.right
Across(side, p) == IF side \in {"Top", "Bottom"} THEN p.y ELSE p.x
Along(side, p) == IF side \in {"Top", "Bottom"} THEN p.x ELSE p.y

\* The segment from a to b meets the line of the side at a parameter in
\* [0, 1], and m is the point where it does (to the nearest hundredth).
CrossedAt(m, a, b, side) ==
    LET line == SideLine(side)
        d == Across(side, b) - Across(side, a)
        exact == Along(side, a) * d + (line - Across(side, a)) * (Along(side, b) - Along(side, a))
    IN  /\ d # 0
        /\ Min(Across(side, a), Across(side, b)) <= line
        /\ line <= Max(Across(side, a), Across(side, b))
        /\ 2 * Abs(Along(side, m) * d - exact) <= Abs(d)

\* The segment from a to b can yield a mark for the side: it is not parallel
\* to it and its endpoints are not strictly on one side of its line.
MayCross(a, b, side) ==
    LET line == SideLine(side)
    IN  /\ Across(side, a) # Across(side, b)
        /\ ~(Across(side, a) < line /\ Across(side, b) < line)
        /\ ~(Across(side, a) > line /\ Across(side, b) > line)

StrictlyInside(p) ==
    EdgeRect.left < p.x /\ p.x < EdgeRect.right /\ EdgeRect.top < p.y /\ p.y < EdgeRect.bottom

IsMultipleOfStep(d, u) == IF u.hi > 0 THEN d = 0 ELSE Abs(d) % u.lo = 0

\* C23: for every Dec tick d and every step_dec_deg >= 1 the Frame layer takes
\* d for major exactly when |d| is a multiple of step_dec_deg, so d and -d
\* are major together.
C23_DecMajorIsMultiple ==
    tk_pc \notin {"idle", "frame"} =>
        /\ \A d \in DecTicks : (d \in tk_major_dec) = IsMultipleOfStep(d, tk_dec)
        /\ \A d \in DecTicks : -d \in DecTicks => ((d \in tk_major_dec) = (-d \in tk_major_dec))

\* C25: for every step_ra_deg >= 1 the RA ticks the Frame layer takes for
\* major are at the right ascensions where the Grid layer draws a meridian:
\* tick i (RA 3.75 * i degrees) is major exactly when it is at a drawn hour.
C25_MajorRaTicksOnMeridians ==
    tk_pc \in {"grid_dec", "done"} =>
        tk_major_ra = {4 * h : h \in tk_meridians}

\* C26: for every step_dec_deg >= 1 the Dec ticks the Frame layer takes for
\* major are the declinations where the Grid layer draws a parallel.
C26_MajorDecTicksOnParallels ==
    tk_pc = "done" =>
        tk_major_dec = {tk_parallels[k] : k \in 1..Len(tk_parallels)}

\* C28: for every step_ra_deg >= 1 every major RA tick is on a whole hour, its
\* label is that hour, and two major ticks never carry the same label.
C28_MajorRaTicksOnWholeHours ==
    tk_pc \notin {"idle", "frame"} =>
        /\ \A i \in tk_major_ra : i % 4 = 0 /\ RaLabel(i) = ToString(i \div 4) \o "h"
        /\ \A i, j \in tk_major_ra : i # j => RaLabel(i) # RaLabel(j)

\* With a step of 45 degrees the major ticks are those of 0h, 3h, ..., 21h.
C28_Witness ==
    /\ tk_pc = "done"
    /\ tk_ra = 45
    /\ tk_major_ra = {0, 12, 24, 36, 48, 60, 72, 84}
    /\ RaLabel(84) = "21h"

\* C24: every star or object that is made a label candidate is also drawn as
\* a symbol: its magnitude is within limit_star_mag, resp. limit_object_mag.
C24_LabelledAreDrawn ==
    labels_pc \in {"place", "done"} =>
        \A k \in 1..Len(cands) :
            IF cands[k].is_star THEN cands[k].magnitude <= cfg.limit_star_mag
            ELSE cands[k].magnitude <= cfg.limit_object_mag

\* C27: for every star drawn by StarsLayer the symbol box LabelsLayer seeds
\* for it encloses the drawn circle: the half-width of the box is at least the
\* radius of the circle.
C27_SymbolBoxEnclosesCircle ==
    \A k \in 1..Len(star_out) :
        LET c == star_out[k]
            b == star_symbol_box(Point(c.cx, c.cy), c.magnitude)
        IN  /\ b.w >= 2 * c.r
            /\ b.x <= c.cx - c.r /\ c.cx + c.r <= b.x + b.w
            /\ b.y <= c.cy - c.r /\ c.cy + c.r <= b.y + b.h

\* The state of the placement loop of a run that starts from the occupied list
\* seed and whose sorted candidate list is cs: the occupied list, the offsets
\* chosen (0: skipped) and the labels emitted.
RECURSIVE RunOver(_, _)
RunOver(seed, cs) ==
    IF cs = <<>> THEN [placed |-> seed, chosen |-> <<>>, labels |-> <<>>]
    ELSE LET n == Len(cs)
             before == RunOver(seed, SubSeq(cs, 1, n - 1))
             c == cs[n]
             k == FirstValidOffset(c, before.placed, layout)
             b == OffsetBox(c, k)
             cls == IF c.is_star THEN "star-label" ELSE "object-label"
         IN  IF k = 0
             THEN [before EXCEPT !.chosen = Append(@, 0)]
             ELSE [placed |-> Append(before.placed, b),
                   chosen |-> Append(before.chosen, k),
                   labels |-> Append(before.labels,
                       text(cls, c.p.x + offsets[k][1], b.y + b.h, "middle", c.text))]

\* C29: the outcome for a candidate depends only on the seeded symbol boxes
\* and on the candidates before it. For every prefix of the sorted candidate
\* list that the loop has processed, a run with the same seed list whose
\* candidate list ends with that prefix chooses the same offsets and emits the
\* same labels as this run did for the prefix; so any two runs with equal
\* seeds and a common prefix agree on it, whatever candidates follow.
C29_PrefixDeterminesOutcome ==
    labels_pc \in {"place", "done"} =>
        \A k \in 0..Len(chosen) :
            LET other == RunOver(seed_symbol_boxes(data, cfg, layout, quarter_above),
                                 SubSeq(cands, 1, k))
            IN  /\ other.chosen = SubSeq(chosen, 1, k)
                /\ Len(other.labels) <= Len(label_out)
                /\ other.labels = SubSeq(label_out, 1, Len(other.labels))

\* A finished run in which a candidate was placed at its first offset although
\* that box overlaps the first-offset box of a dimmer candidate that follows,
\* and the dimmer one was moved or skipped.
C29_Witness ==
    /\ labels_pc = "done"
    /\ \E i \in 1..Len(cands) : \E j \in (i + 1)..Len(cands) :
          /\ chosen[i] = 1
          /\ chosen[j] # 1
          /\ boxes_overlap(OffsetBox(cands[i], 1), OffsetBox(cands[j], 1))

\* The abbreviations of the records that are not skipped, each once, in the
\* order in which it first appears.
RECURSIVE FirstAppearance(_)
FirstAppearance(rows) ==
    IF rows = <<>> THEN <<>>
    ELSE LET n == Len(rows)
             before == FirstAppearance(SubSeq(rows, 1, n - 1))
         IN  IF RecordLen(rows[n]) < 3
                \/ \E i \in 1..Len(before) : before[i] = rows[n].abbr
             THEN before
             ELSE Append(before, rows[n].abbr)

\* C30: for the same input parse_constellations_from_reader returns the
\* constellations in the same order on every invocation: the two invocations
\* return the same vector, and the names in it are in the order in which each
\* abbreviation first appears in the input.
C30_ReproducibleOrder ==
    con_pc = "done" =>
        /\ con_out[1] = con_out[2]
        /\ \A r \in 1..2 :
              /\ Len(con_out[r]) = Len(FirstAppearance(con_rows))
              /\ \A i \in 1..Len(con_out[r]) :
                    con_out[r][i].name = ConstellationName(FirstAppearance(con_rows)[i])

============================================================================
